---- MODULE Spec2Model ----
(***************************************************************************)
(* Reputation / commitment bookkeeping of the traffic-bottleneck           *)
(* coordination demo, in its two variants:                                 *)
(*   cli : src/autogen_agent.py          (one episode per process)         *)
(*   web : src/mas_visualization/main.py (one episode per simulation task, *)
(*         started and stopped through two HTTP routes)                    *)
(* Participants "ClassroomAgent_C<i>" are the integers i; 0 is a name that *)
(* belongs to no participant (the model's reply may carry any name).       *)
(* A commitment record keeps the fields the bookkeeping reads: debtor,     *)
(* creditor, created_at and status.  time_adjustment, future_obligation    *)
(* and episode are copied verbatim by every operation and never read.      *)
(***************************************************************************)
EXTENDS Integers, Sequences, FiniteSets, TLC

\* ------------------------------------------------------------ bounds ----
MaxClassrooms == 3
MaxEpisodes == 1

\* --------------------------------------------------------- constants ----
InitialScore == 10
MaxScore == 15
MinScore == 0
SuccessGain == 1
ViolationPenalty == 5
HighCongestion == 70
MediumCongestion == 40

StudentCounts == {30, 80}
\* student counts of n agents: all at the low end, or one agent at the high end
StudentCountVectors(n) ==
  {sc \in [1..n -> StudentCounts] : \A i, j \in 1..n : sc[i] = 80 /\ sc[j] = 80 => i = j}
Stranger == 0
CliClassrooms == MaxClassrooms

Min2(a, b) == IF a < b THEN a ELSE b
Max2(a, b) == IF a > b THEN a ELSE b
SetMin(S) == CHOOSE m \in S : \A x \in S : m <= x

RECURSIVE SortedSeq(_)
SortedSeq(S) == IF S = {} THEN << >>
                ELSE LET m == SetMin(S) IN << m >> \o SortedSeq(S \ {m})

\* ------------------------------------------------------------- state ----
VARIABLES
  file,               \* commitments.json
  episodes,           \* runs started so far; also the clock of created_at
  variant,            \* "cli" or "web": the program this state file belongs to
  pc,                 \* where the current run is suspended
  num_classrooms,     \* length of classroom_agents
  student_count,      \* ClassroomAgent.student_count
  heap,               \* the Commitment objects of the run
  commitments_made,   \* per agent: references into heap
  commitments_received,
  reputation_scores,  \* per agent: peer name -> score
  violation_count,
  initiator, target,  \* locals of run_coordination_episode (0 = unset)
  evaluation,         \* the target's reply, by prefix
  counter_evaluation, \* the initiator's reply to a counter-offer
  commitment,         \* the Commitment created by this episode (0 = none)
  error,              \* the episode reached its except clause
  cancelled,          \* CancelledError was thrown into the task
  loaded,             \* the state file as the run read it
  parsed_terms,       \* what parse_commitment_from_text returned ("unset" = not called)
  proposals,          \* calls of propose_commitment in this run
  reply_text,         \* the target's reply as text (the replies specification)
  notified,           \* deal notifications each agent received (the broadcast specification)
  broadcast_next,     \* position of broadcast_commitment's loop over the agents
  script,             \* the inputs given to both variants (the comparison specification)
  persisted,          \* the state file each variant ended with, per variant
  congestion_level,   \* propose_commitment: its argument, in percent
  adjustment,         \* propose_commitment: its local (0 = not computed)
  simulation_task,    \* main.py global: the task started last (0 = None)
  tasks,              \* per start request: the task it created
  requests,           \* per start request: where its handler is, or its answer
  response            \* the answer to the stop request handled last

episode_vars == << file, episodes, variant, pc, num_classrooms, student_count, heap,
                   commitments_made, commitments_received, reputation_scores,
                   violation_count, initiator, target, evaluation,
                   counter_evaluation, commitment, error, cancelled, loaded,
                   parsed_terms, proposals >>

reply_vars == << reply_text >>

broadcast_vars == << notified, broadcast_next >>

compare_vars == << script, persisted >>

propose_vars == << congestion_level, adjustment >>

control_vars == << simulation_task, tasks, requests, response >>

vars == << episode_vars, reply_vars, broadcast_vars, compare_vars, propose_vars,
          control_vars >>

NoFile == [exists |-> FALSE, commitments |-> << >>, reputations |-> << >>]

\* ------------------------------------------------- ClassroomAgent ----
\* a fresh table that also scores the agent itself
InitTableWithSelf(self, n) == [p \in 1..n |-> InitialScore]

\* reputation_scores = {name: 10 for name in all_agent_names if name != self.name}
InitTable(self, n) == [p \in (1..n) \ {self} |-> InitialScore]

\* dict.get(key, default)
Get(table, k, d) == IF k \in DOMAIN table THEN table[k] ELSE d

\* dict[key] = value
Put(table, k, v) == [x \in (DOMAIN table) \cup {k} |-> IF x = k THEN v ELSE table[x]]

\* dict.update(other)
Update(table, other) ==
  [x \in (DOMAIN table) \cup (DOMAIN other) |->
     IF x \in DOMAIN other THEN other[x] ELSE table[x]]

\* create_commitment: status defaults to "pending", created_at = now
Commitment(d, c, now) ==
  [debtor |-> d, creditor |-> c, created_at |-> now, status |-> "pending"]

AdjustmentInclusive(congestion) ==
  IF congestion >= HighCongestion THEN -4
  ELSE IF congestion >= MediumCongestion THEN -2
  ELSE -1

\* propose_commitment: the adjustment announced in the proposal prompt,
\* congestion as an integer percentage
Adjustment(congestion) ==
  IF congestion > HighCongestion THEN -4
  ELSE IF congestion > MediumCongestion THEN -2
  ELSE -1

\* ----------------------------------------------- update_reputations ----
\* Success without the min(15, ...)
SuccessUncapped(rep, a1, a2) ==
  LET r1 == [rep EXCEPT ![a1] = Put(@, a2, Get(@, a2, InitialScore) + SuccessGain)]
  IN  [r1 EXCEPT ![a2] = Put(@, a1, Get(@, a1, InitialScore) + SuccessGain)]

\* outcome == 'success': both sides gain, capped
\* a success update that raises only agent1's opinion of agent2
SuccessOneSided(rep, a1, a2) ==
  [rep EXCEPT ![a1] = Put(@, a2, Min2(MaxScore, Get(@, a2, InitialScore) + SuccessGain))]

Success(rep, a1, a2) ==
  LET r1 == [rep EXCEPT ![a1] = Put(@, a2, Min2(MaxScore, Get(@, a2, InitialScore) + SuccessGain))]
  IN  [r1 EXCEPT ![a2] = Put(@, a1, Min2(MaxScore, Get(@, a1, InitialScore) + SuccessGain))]

\* a violation update that raises agent1's opinion of agent2
ViolationRewarded(rep, a1, a2) ==
  [rep EXCEPT ![a1] = Put(@, a2, Min2(MaxScore, Get(@, a2, InitialScore) + SuccessGain))]

\* outcome == 'violation' (web): only agent1's opinion of agent2 drops, floored
Violation(rep, a1, a2) ==
  [rep EXCEPT ![a1] = Put(@, a2, Max2(MinScore, Get(@, a2, InitialScore) - ViolationPenalty))]

\* update_reputations(agent1, agent2, outcome).  In the cli variant the
\* violation branch reads `violator`, which is a variable of no enclosing
\* scope: NameError, and the tables stay as they are
UpdateReputations(v, rep, a1, a2, outcome) ==
  IF outcome = "success" THEN [scores |-> Success(rep, a1, a2), raised |-> FALSE]
  ELSE IF v = "web" THEN [scores |-> Violation(rep, a1, a2), raised |-> FALSE]
  ELSE [scores |-> rep, raised |-> TRUE]

\* ------------------------------------------------ check_for_violation ----
\* position in violator.commitments_made of the first pending commitment
\* owed to the initiator (0 = none)
FirstOwed(h, made, violator, init) ==
  LET hits == {k \in 1..Len(made[violator]) :
                 /\ h[made[violator][k]].creditor = init
                 /\ h[made[violator][k]].status = "pending"}
  IN  IF hits = {} THEN 0 ELSE SetMin(hits)

\* MarkViolated writing another status
MarkFulfilled(h, made, violator, k) ==
  [h EXCEPT ![made[violator][k]].status = "fulfilled"]

\* commitment.status = "violated"
MarkViolated(h, made, violator, k) ==
  [h EXCEPT ![made[violator][k]].status = "violated"]

\* ------------------------------------------ select_negotiation_target ----
\* agents_by_pressure[0]: sorted(..., reverse=True) is stable, so the first
\* agent with the highest student count (0 stands for the IndexError of an
\* empty list)
Initiator(sc, n) ==
  IF n = 0 THEN 0
  ELSE CHOOSE i \in 1..n : /\ \A j \in 1..n : sc[j] <= sc[i]
                           /\ \A j \in 1..(i - 1) : sc[j] < sc[i]

PotentialTargets(init, n) == (1..n) \ {init}

\* first pending commitment of the initiator whose creditor is a potential
\* target (position in commitments_made, 0 = none)
FirstDebt(h, made, init, n) ==
  LET hits == {k \in 1..Len(made[init]) :
                 /\ h[made[init][k]].status = "pending"
                 /\ h[made[init][k]].creditor \in PotentialTargets(init, n)}
  IN  IF hits = {} THEN 0 ELSE SetMin(hits)

\* a choice of the first peer with the lowest score
ByLowestReputation(table, init, n) ==
  CHOOSE p \in PotentialTargets(init, n) :
    /\ \A q \in PotentialTargets(init, n) : table[p] <= table[q]
    /\ \A q \in PotentialTargets(init, n) : q < p => table[p] < table[q]

\* sorted(potential_targets, key=reputation, reverse=True)[0]
ByReputation(table, init, n) ==
  CHOOSE p \in PotentialTargets(init, n) :
    /\ \A q \in PotentialTargets(init, n) : table[q] <= table[p]
    /\ \A q \in PotentialTargets(init, n) : q < p => table[q] < table[p]

NoTarget == 0
KeyError == -1

\* SelectNegotiationTarget without the scan of the initiator's debts
SelectByReputationOnly(h, made, rep, init, n) ==
  IF PotentialTargets(init, n) = {} THEN NoTarget
  ELSE IF \E p \in PotentialTargets(init, n) : p \notin DOMAIN rep[init]
       THEN KeyError
  ELSE ByReputation(rep[init], init, n)

\* the agent returned; NoTarget for None; KeyError when the reputation
\* lookup fails on a missing entry
SelectNegotiationTarget(h, made, rep, init, n) ==
  IF PotentialTargets(init, n) = {} THEN NoTarget
  ELSE IF FirstDebt(h, made, init, n) # 0
       THEN h[made[init][FirstDebt(h, made, init, n)]].creditor
  ELSE IF \E p \in PotentialTargets(init, n) : p \notin DOMAIN rep[init]
       THEN KeyError
  ELSE ByReputation(rep[init], init, n)

\* -------------------------------------------------------- persistence ----
RECURSIVE Concat(_, _)
Concat(lists, n) == IF n = 0 THEN << >> ELSE Concat(lists, n - 1) \o lists[n]

CommitId(c) == << c.debtor, c.creditor, c.created_at >>

\* save_commitments_to_file: every agent's commitments_made in agent order,
\* skipping a commit_id already written; every agent's reputation table
SaveCommitmentsToFile(h, made, rep, n) ==
  LET ids  == Concat(made, n)
      keep == {k \in 1..Len(ids) :
                 \A j \in 1..(k - 1) : CommitId(h[ids[j]]) # CommitId(h[ids[k]])}
      ord  == SortedSeq(keep)
  IN  [exists |-> TRUE,
       commitments |-> [j \in 1..Len(ord) |-> h[ids[ord[j]]]],
       reputations |-> [a \in 1..n |-> rep[a]]]

\* LoadHeap dropping the saved status, so that the dataclass default applies
LoadHeapDefaultStatus(f) ==
  [k \in 1..Len(f.commitments) |-> [f.commitments[k] EXCEPT !.status = "pending"]]

\* load_commitments_from_file, commitments: one object per record, appended
\* to the debtor's made list and the creditor's received list when that
\* agent exists
LoadHeap(f) == f.commitments

LoadMade(f, n) ==
  [a \in 1..n |-> SortedSeq({k \in 1..Len(f.commitments) : f.commitments[k].debtor = a})]

\* a load that puts each record into the received list of its debtor
LoadReceivedByDebtor(f, n) ==
  [a \in 1..n |-> SortedSeq({k \in 1..Len(f.commitments) : f.commitments[k].debtor = a})]

LoadReceived(f, n) ==
  [a \in 1..n |-> SortedSeq({k \in 1..Len(f.commitments) : f.commitments[k].creditor = a})]

\* a load that replaces the table by the saved one in both variants
LoadReputationsReplaced(f, v, n) ==
  [a \in 1..n |->
     IF f.exists /\ a \in DOMAIN f.reputations THEN f.reputations[a]
     ELSE InitTable(a, n)]

\* load_commitments_from_file, reputations: cli replaces the table by the
\* saved one, web updates the fresh table with the saved one
LoadReputations(f, v, n) ==
  [a \in 1..n |->
     IF f.exists /\ a \in DOMAIN f.reputations
     THEN IF v = "cli" THEN f.reputations[a]
          ELSE Update(InitTable(a, n), f.reputations[a])
     ELSE InitTable(a, n)]

\* ------------------------------------------- run_coordination_episode ----
\* the bookkeeping a step works on; raised = the step ended in an exception
\* that the episode's except clause catches
Mem == [heap |-> heap, made |-> commitments_made, received |-> commitments_received,
        scores |-> reputation_scores, violations |-> violation_count,
        commitment |-> commitment, parsed |-> parsed_terms, raised |-> FALSE]

SetMem(m) ==
  /\ heap' = m.heap
  /\ commitments_made' = m.made
  /\ commitments_received' = m.received
  /\ reputation_scores' = m.scores
  /\ violation_count' = m.violations
  /\ commitment' = m.commitment
  /\ parsed_terms' = m.parsed

\* the names the model's text may carry: no agent's, the initiator's, the
\* target's, and the first other classroom's (in the run or not)
FragmentNames ==
  LET rest == (1..MaxClassrooms) \ {initiator, target}
  IN  {Stranger, initiator, target} \cup (IF rest = {} THEN {} ELSE {SetMin(rest)})

\* what parse_commitment_from_text returns: None, {}, an object whose keys
\* are not create_commitment's parameters, or the four terms
Fragments ==
  {[kind |-> k, debtor |-> Stranger, creditor |-> Stranger] : k \in {"none", "empty", "badkeys"}}
  \cup {[kind |-> "terms", debtor |-> d, creditor |-> c] : d, c \in FragmentNames}

\* one iteration of check_for_violation's loop that finds a pending
\* commitment owed to the initiator (position k of the violator's list)
ViolationFound(m, v, violator, init, k) ==
  LET u == UpdateReputations(v, m.scores, init, violator, "violation")
  IN  [m EXCEPT !.heap = MarkViolated(m.heap, m.made, violator, k),
                !.violations = [@ EXCEPT ![violator] = @ + 1],
                !.scores = u.scores,
                !.raised = u.raised]

\* cli check_for_violation: returns after the first commitment found
CheckForViolationCli(m, violator, init) ==
  IF FirstOwed(m.heap, m.made, violator, init) = 0 THEN m
  ELSE ViolationFound(m, "cli", violator, init, FirstOwed(m.heap, m.made, violator, init))

\* a direct accept that creates the commitment twice
RecordCliAcceptTwice(m, init, tgt, d, c, now) ==
  LET id == Len(m.heap) + 2
  IN  [m EXCEPT !.heap = Append(Append(@, Commitment(d, c, now)), Commitment(d, c, now)),
                !.commitment = id,
                !.made = [@ EXCEPT ![init] = Append(@, id)],
                !.received = [@ EXCEPT ![tgt] = Append(@, id)],
                !.scores = Success(@, init, tgt)]

\* cli, direct accept: the lists are the initiator's and the target's
RecordCliAccept(m, init, tgt, d, c, now) ==
  LET id == Len(m.heap) + 1
  IN  [m EXCEPT !.heap = Append(@, Commitment(d, c, now)),
                !.commitment = id,
                !.made = [@ EXCEPT ![init] = Append(@, id)],
                !.received = [@ EXCEPT ![tgt] = Append(@, id)],
                !.scores = Success(@, init, tgt)]

\* cli, accepted counter-offer: the lists are looked up by the parsed names,
\* and a name that is no agent's is skipped
RecordCliCounter(m, init, tgt, d, c, now, n) ==
  LET id == Len(m.heap) + 1
  IN  [m EXCEPT !.heap = Append(@, Commitment(d, c, now)),
                !.commitment = id,
                !.made = IF d \in 1..n THEN [@ EXCEPT ![d] = Append(@, id)] ELSE @,
                !.received = IF c \in 1..n THEN [@ EXCEPT ![c] = Append(@, id)] ELSE @,
                !.scores = Success(@, init, tgt)]

\* web, both paths: agent_map[debtor] and agent_map[creditor] raise KeyError
\* on a name that is no agent's, after what was already appended
RecordWeb(m, init, tgt, d, c, now, n) ==
  LET id == Len(m.heap) + 1
      m1 == [m EXCEPT !.heap = Append(@, Commitment(d, c, now)), !.commitment = id]
  IN  IF d \notin 1..n THEN [m1 EXCEPT !.raised = TRUE]
      ELSE IF c \notin 1..n
           THEN [m1 EXCEPT !.made = [@ EXCEPT ![d] = Append(@, id)], !.raised = TRUE]
      ELSE [m1 EXCEPT !.made = [@ EXCEPT ![d] = Append(@, id)],
                      !.received = [@ EXCEPT ![c] = Append(@, id)],
                      !.scores = Success(@, init, tgt)]

\* a deal that discharges what the initiator owed the target
RecordDealDischarging(m0, v, path, init, tgt, frag, now, n) ==
  LET m == [m0 EXCEPT !.parsed = frag.kind]
      paid == [k \in 1..Len(m0.heap) |->
                 IF m0.heap[k].debtor = init /\ m0.heap[k].creditor = tgt
                    /\ m0.heap[k].status = "pending"
                 THEN [m0.heap[k] EXCEPT !.status = "fulfilled"] ELSE m0.heap[k]]
  IN  IF frag.kind \in {"none", "empty"} THEN m
      ELSE IF frag.kind = "badkeys" THEN [m EXCEPT !.raised = TRUE]
      ELSE IF v = "web"
           THEN RecordWeb([m EXCEPT !.heap = paid], init, tgt, frag.debtor,
                          frag.creditor, now, n)
      ELSE IF path = "direct"
           THEN RecordCliAccept([m EXCEPT !.heap = paid], init, tgt, frag.debtor,
                                frag.creditor, now)
      ELSE RecordCliCounter([m EXCEPT !.heap = paid], init, tgt, frag.debtor,
                            frag.creditor, now, n)

\* `if parsed_terms:` ... create_commitment(**parsed_terms) ... record
RecordDeal(m0, v, path, init, tgt, frag, now, n) ==
  LET m == [m0 EXCEPT !.parsed = frag.kind]
  IN  IF frag.kind \in {"none", "empty"} THEN m
      ELSE IF frag.kind = "badkeys" THEN [m EXCEPT !.raised = TRUE]
      ELSE IF v = "web" THEN RecordWeb(m, init, tgt, frag.debtor, frag.creditor, now, n)
      ELSE IF path = "direct"
           THEN RecordCliAccept(m, init, tgt, frag.debtor, frag.creditor, now)
      ELSE RecordCliCounter(m, init, tgt, frag.debtor, frag.creditor, now, n)

\* a save that leaves the state file as it is
SaveSkipped(m) == file

Save(m) == SaveCommitmentsToFile(m.heap, m.made, m.scores, num_classrooms)

\* ------------------------------------------------------------ actions ----
Replies == {"ACCEPT", "COUNTER", "REJECT"}
CounterReplies == {"ACCEPT", "REJECT"}

\* suspended in an await inside the generator's try block
AwaitPcs == {"monitor", "assess", "propose", "evaluate", "counter"}
\* suspended in run_and_broadcast while an update is sent to the clients
YieldPcs == {"setup", "respond", "violation", "counter_respond", "wrapup",
             "error", "saved"}

\* ---------------------------------------------------- state files ----
\* State files the program has written, each with the runs that write it
\* from no file at all; created_at <= 0 is before this behaviour begins.
Saved(d, c, at, st) == [debtor |-> d, creditor |-> c, created_at |-> at, status |-> st]

\* web, five runs with 2 classrooms, C1 initiating towards C2: a direct
\* accept of a fragment naming C2 debtor and C1 creditor, then four times
\* COUNTER by C2 (a violation each), the counter-offer accepted with the
\* same names
WebVeteran ==
  [exists |-> TRUE,
   commitments |-> << Saved(2, 1, -4, "violated"), Saved(2, 1, -3, "violated"),
                      Saved(2, 1, -2, "violated"), Saved(2, 1, -1, "violated"),
                      Saved(2, 1, 0, "pending") >>,
   reputations |-> << (2 :> 1), (1 :> 15) >>]

\* web, two runs with 3 classrooms, C1 initiating: C2 accepts a fragment
\* naming C1 debtor and C3 creditor; then C3 (now C1's creditor) accepts a
\* fragment naming C3 debtor and C1 creditor
WebThree ==
  [exists |-> TRUE,
   commitments |-> << Saved(1, 3, -1, "pending"), Saved(3, 1, 0, "pending") >>,
   reputations |-> << (2 :> 11) @@ (3 :> 11), (1 :> 11) @@ (3 :> 10),
                      (1 :> 11) @@ (2 :> 10) >>]

\* web, two runs with 2 classrooms, C1 initiating towards C2: twice a direct
\* accept of a fragment naming C2 debtor and C1 creditor
WebTwice ==
  [exists |-> TRUE,
   commitments |-> << Saved(2, 1, -1, "pending"), Saved(2, 1, 0, "pending") >>,
   reputations |-> << (2 :> 12), (1 :> 12) >>]

\* cli, five runs, C1 initiating towards C2: four accepted counter-offers
\* whose fragment names nobody, then a direct accept naming C1 and C2
CliVeteran ==
  [exists |-> TRUE,
   commitments |-> << Saved(1, 2, 0, "pending") >>,
   reputations |-> [a \in 1..CliClassrooms |->
                      [p \in (1..CliClassrooms) \ {a} |->
                         IF {a, p} = {1, 2} THEN MaxScore ELSE InitialScore]]]

\* cli, two runs, C1 initiating towards C2: twice a direct accept of a
\* fragment naming C2 debtor and C1 creditor; the save writes C1's list
\* (the second record) before C2's (the first, filed with C2 by the load)
CliTwice ==
  [exists |-> TRUE,
   commitments |-> << Saved(2, 1, 0, "pending"), Saved(2, 1, -1, "pending") >>,
   reputations |-> [a \in 1..CliClassrooms |->
                      [p \in (1..CliClassrooms) \ {a} |->
                         IF {a, p} = {1, 2} THEN InitialScore + 2 * SuccessGain
                         ELSE InitialScore]]]

StateFiles(v) == IF v = "cli" THEN {NoFile, CliVeteran}
                 ELSE {NoFile, WebVeteran, WebThree}

Init ==
  /\ variant \in {"cli", "web"}
  /\ file \in StateFiles(variant)
  /\ episodes = 0
  /\ pc = "idle"
  /\ num_classrooms = 0
  /\ student_count = << >>
  /\ heap = << >>
  /\ commitments_made = << >>
  /\ commitments_received = << >>
  /\ reputation_scores = << >>
  /\ violation_count = << >>
  /\ initiator = 0
  /\ target = 0
  /\ evaluation = "none"
  /\ counter_evaluation = "none"
  /\ commitment = 0
  /\ error = FALSE
  /\ cancelled = FALSE
  /\ loaded = NoFile
  /\ parsed_terms = "unset" /\ proposals = 0
  /\ reply_text = << >>
  /\ notified = << >> /\ broadcast_next = 0
  /\ script = << >> /\ persisted = << >>
  /\ congestion_level = 0 /\ adjustment = 0
  /\ simulation_task = 0 /\ tasks = << >> /\ requests = << >>
  /\ response = "none"

\* classroom_agents = [ClassroomAgent(...)]; load_commitments_from_file()
Construct(v, n) ==
  /\ num_classrooms' = n
  /\ \E sc \in StudentCountVectors(n) : student_count' = sc
  /\ heap' = LoadHeap(file)
  /\ commitments_made' = LoadMade(file, n)
  /\ commitments_received' = LoadReceived(file, n)
  /\ reputation_scores' = LoadReputations(file, v, n)
  /\ violation_count' = [a \in 1..n |-> 0]
  /\ loaded' = file

\* the episode's `finally` of the cli variant, and the end of the process
FinishCli(m, failed) ==
  /\ SetMem(m)
  /\ error' = (error \/ failed \/ m.raised)
  /\ file' = Save(m)
  /\ pc' = "final"

\* a web generator whose exception leaves it past the except clause and
\* the `finally`
ContinueWebUncaught(m, next) ==
  /\ SetMem(m)
  /\ error' = (error \/ m.raised)
  /\ pc' = IF m.raised THEN "final" ELSE next
  /\ file' = file

\* the web generator goes on to its next yield, or to its except clause
ContinueWeb(m, next) ==
  /\ SetMem(m)
  /\ error' = (error \/ m.raised)
  /\ pc' = IF m.raised THEN "error" ELSE next
  /\ file' = file

\* python autogen_agent.py: MultiAgentTrafficSystem() and the episode up to
\* its first model call
StartCli ==
  /\ UNCHANGED << reply_vars, compare_vars, broadcast_vars, propose_vars, control_vars >>
  /\ variant = "cli"
  /\ pc = "idle"
  /\ episodes < MaxEpisodes
  /\ episodes' = episodes + 1
  /\ Construct("cli", CliClassrooms)
  /\ pc' = "monitor"
  /\ UNCHANGED << file, variant, proposals, initiator, target, evaluation, counter_evaluation,
                  commitment, parsed_terms, error, cancelled >>

\* POST /simulation/run with no simulation active: the task is created
RunSimulation(num) ==
  /\ UNCHANGED << reply_vars, compare_vars, broadcast_vars, propose_vars, control_vars >>
  /\ variant = "web"
  /\ pc = "idle"
  /\ episodes < MaxEpisodes
  /\ episodes' = episodes + 1
  /\ num_classrooms' = num
  /\ pc' = "created"
  /\ UNCHANGED << file, variant, proposals, student_count, heap, commitments_made, commitments_received,
                  reputation_scores, violation_count, initiator, target, evaluation,
                  counter_evaluation, commitment, parsed_terms, error, cancelled, loaded >>

\* run_and_broadcast starts: the generator runs to its first yield
TaskStart ==
  /\ UNCHANGED << reply_vars, compare_vars, broadcast_vars, propose_vars, control_vars >>
  /\ pc = "created"
  /\ Construct("web", num_classrooms)
  /\ pc' = "setup"
  /\ UNCHANGED << file, episodes, variant, proposals, initiator, target, evaluation,
                  counter_evaluation, commitment, parsed_terms, error, cancelled >>

\* web: the setup updates are out, the monitor's model call begins
BeginMonitoring ==
  /\ UNCHANGED << reply_vars, compare_vars, broadcast_vars, propose_vars, control_vars >>
  /\ pc = "setup"
  /\ pc' = "monitor"
  /\ UNCHANGED << file, episodes, variant, proposals, num_classrooms, student_count, heap,
                  commitments_made, commitments_received, reputation_scores,
                  violation_count, initiator, target, evaluation, counter_evaluation,
                  commitment, parsed_terms, error, cancelled, loaded >>

\* step 1: broadcast_traffic_state returns
BroadcastTrafficState ==
  /\ UNCHANGED << reply_vars, compare_vars, broadcast_vars, propose_vars, control_vars >>
  /\ pc = "monitor"
  /\ pc' = "assess"
  /\ UNCHANGED << file, episodes, variant, proposals, num_classrooms, student_count, heap,
                  commitments_made, commitments_received, reputation_scores,
                  violation_count, initiator, target, evaluation, counter_evaluation,
                  commitment, parsed_terms, error, cancelled, loaded >>

\* step 2 ends and step 3 picks the pair
AssessAndSelect ==
  /\ UNCHANGED << reply_vars, compare_vars, broadcast_vars, propose_vars, control_vars >>
  /\ pc = "assess"
  /\ LET i == Initiator(student_count, num_classrooms)
         t == IF i = 0 THEN KeyError
              ELSE SelectNegotiationTarget(heap, commitments_made, reputation_scores,
                                           i, num_classrooms)
     IN  IF t = KeyError
         THEN \* IndexError / KeyError: the except clause
              /\ UNCHANGED << initiator, target >>
              /\ IF variant = "cli" THEN FinishCli(Mem, TRUE)
                 ELSE ContinueWeb([Mem EXCEPT !.raised = TRUE], "error")
         ELSE IF t = NoTarget
         THEN \* "Not enough agents to negotiate."; return
              /\ initiator' = i
              /\ target' = NoTarget
              /\ IF variant = "cli" THEN FinishCli(Mem, FALSE)
                 ELSE ContinueWeb(Mem, "wrapup")
         ELSE /\ initiator' = i
              /\ target' = t
              /\ pc' = "propose"
              /\ UNCHANGED << file, heap, commitments_made, commitments_received,
                              reputation_scores, violation_count, commitment, parsed_terms, error >>
  /\ UNCHANGED << episodes, variant, proposals, num_classrooms, student_count, evaluation,
                  counter_evaluation, cancelled, loaded >>

\* propose_commitment returns the proposal text
ProposeCommitment ==
  /\ UNCHANGED << reply_vars, compare_vars, broadcast_vars, propose_vars, control_vars >>
  /\ pc = "propose"
  /\ pc' = "evaluate"
  /\ proposals' = proposals + 1
  /\ UNCHANGED << file, episodes, variant, num_classrooms, student_count, heap,
                  commitments_made, commitments_received, reputation_scores,
                  violation_count, initiator, target, evaluation, counter_evaluation,
                  commitment, parsed_terms, error, cancelled, loaded >>

\* step 4 of the cli variant after the target's reply, up to the next model
\* call or the end of the episode
ExecuteCli(reply) ==
  IF reply = "ACCEPT"
  THEN \E frag \in Fragments :
         FinishCli(RecordDeal(Mem, "cli", "direct", initiator, target, frag,
                              episodes, num_classrooms), FALSE)
  ELSE LET m == CheckForViolationCli(Mem, target, initiator)
       IN  IF reply = "COUNTER" /\ ~m.raised
           THEN /\ SetMem(m)
                /\ pc' = "counter"
                /\ UNCHANGED << file, error >>
           ELSE FinishCli(m, FALSE)

\* target.evaluate_proposal returns
EvaluateProposal(reply) ==
  /\ UNCHANGED << reply_vars, compare_vars, broadcast_vars, propose_vars, control_vars >>
  /\ pc = "evaluate"
  /\ evaluation' = reply
  /\ IF variant = "cli" THEN ExecuteCli(reply)
     ELSE /\ pc' = "respond"
          /\ UNCHANGED << file, heap, commitments_made, commitments_received,
                          reputation_scores, violation_count, commitment, parsed_terms, error >>
  /\ UNCHANGED << episodes, variant, proposals, num_classrooms, student_count, initiator,
                  target, counter_evaluation, cancelled, loaded >>

\* web check_for_violation: the next pending commitment owed to the
\* initiator is marked and reported; without one the branch goes on
CheckForViolationWeb ==
  LET k == FirstOwed(heap, commitments_made, target, initiator)
  IN  IF k # 0
      THEN ContinueWeb(ViolationFound(Mem, "web", target, initiator, k), "violation")
      ELSE ContinueWeb(Mem, IF evaluation = "COUNTER" THEN "counter" ELSE "wrapup")

\* web step 4 after the response update went out
Respond ==
  /\ UNCHANGED << reply_vars, compare_vars, broadcast_vars, propose_vars, control_vars >>
  /\ pc = "respond"
  /\ IF evaluation = "ACCEPT"
     THEN \E frag \in Fragments :
            ContinueWeb(RecordDeal(Mem, "web", "direct", initiator, target, frag,
                                   episodes, num_classrooms), "wrapup")
     ELSE CheckForViolationWeb
  /\ UNCHANGED << episodes, variant, proposals, num_classrooms, student_count, initiator,
                  target, evaluation, counter_evaluation, cancelled, loaded >>

\* web: the loop of check_for_violation resumes after a violation_update
ResumeViolationCheck ==
  /\ UNCHANGED << reply_vars, compare_vars, broadcast_vars, propose_vars, control_vars >>
  /\ pc = "violation"
  /\ CheckForViolationWeb
  /\ UNCHANGED << episodes, variant, proposals, num_classrooms, student_count, initiator,
                  target, evaluation, counter_evaluation, cancelled, loaded >>

\* initiator.evaluate_proposal(evaluation, ...) returns
EvaluateCounter(reply) ==
  /\ UNCHANGED << reply_vars, compare_vars, broadcast_vars, propose_vars, control_vars >>
  /\ pc = "counter"
  /\ counter_evaluation' = reply
  /\ IF variant = "cli"
     THEN IF reply = "ACCEPT"
          THEN \E frag \in Fragments :
                 FinishCli(RecordDeal(Mem, "cli", "counter", initiator, target, frag,
                                      episodes, num_classrooms), FALSE)
          ELSE FinishCli(Mem, FALSE)
     ELSE /\ pc' = "counter_respond"
          /\ UNCHANGED << file, heap, commitments_made, commitments_received,
                          reputation_scores, violation_count, commitment, parsed_terms, error >>
  /\ UNCHANGED << episodes, variant, proposals, num_classrooms, student_count, initiator,
                  target, evaluation, cancelled, loaded >>

\* web: the counter round after its response update went out
CounterRespond ==
  /\ UNCHANGED << reply_vars, compare_vars, broadcast_vars, propose_vars, control_vars >>
  /\ pc = "counter_respond"
  /\ IF counter_evaluation = "ACCEPT"
     THEN \E frag \in Fragments :
            ContinueWeb(RecordDeal(Mem, "web", "counter", initiator, target, frag,
                                   episodes, num_classrooms), "wrapup")
     ELSE ContinueWeb(Mem, "wrapup")
  /\ UNCHANGED << episodes, variant, proposals, num_classrooms, student_count, initiator,
                  target, evaluation, counter_evaluation, cancelled, loaded >>

\* a model call raises: the except clause of the episode
ModelCallFails ==
  /\ UNCHANGED << reply_vars, compare_vars, broadcast_vars, propose_vars, control_vars >>
  /\ pc \in AwaitPcs
  /\ IF variant = "cli" THEN FinishCli(Mem, TRUE)
     ELSE ContinueWeb([Mem EXCEPT !.raised = TRUE], "error")
  /\ UNCHANGED << episodes, variant, proposals, num_classrooms, student_count, initiator,
                  target, evaluation, counter_evaluation, cancelled, loaded >>

\* web: the generator's `finally`: save, then the "State saved" update
FinallySave ==
  /\ UNCHANGED << reply_vars, compare_vars, broadcast_vars, propose_vars, control_vars >>
  /\ pc \in {"wrapup", "error"}
  /\ file' = Save(Mem)
  /\ pc' = "saved"
  /\ UNCHANGED << episodes, variant, proposals, num_classrooms, student_count, heap,
                  commitments_made, commitments_received, reputation_scores,
                  violation_count, initiator, target, evaluation, counter_evaluation,
                  commitment, parsed_terms, error, cancelled, loaded >>

\* web: the generator ends; with a CancelledError in flight it goes on to
\* run_and_broadcast's handler, otherwise to its `finally`, which saves
GeneratorEnds ==
  /\ UNCHANGED << reply_vars, compare_vars, broadcast_vars, propose_vars, control_vars >>
  /\ pc = "saved"
  /\ IF cancelled THEN pc' = "handler" /\ file' = file
     ELSE pc' = "final" /\ file' = Save(Mem)
  /\ UNCHANGED << episodes, variant, proposals, num_classrooms, student_count, heap,
                  commitments_made, commitments_received, reputation_scores,
                  violation_count, initiator, target, evaluation, counter_evaluation,
                  commitment, parsed_terms, error, cancelled, loaded >>

\* web: `except asyncio.CancelledError` is done, `finally` saves
HandlerEnds ==
  /\ UNCHANGED << reply_vars, compare_vars, broadcast_vars, propose_vars, control_vars >>
  /\ pc = "handler"
  /\ file' = Save(Mem)
  /\ pc' = "final"
  /\ UNCHANGED << episodes, variant, proposals, num_classrooms, student_count, heap,
                  commitments_made, commitments_received, reputation_scores,
                  violation_count, initiator, target, evaluation, counter_evaluation,
                  commitment, parsed_terms, error, cancelled, loaded >>

\* the process exits / the task is done: the objects are gone
Forget ==
  /\ pc' = "idle"
  /\ num_classrooms' = 0
  /\ student_count' = << >>
  /\ heap' = << >>
  /\ commitments_made' = << >>
  /\ commitments_received' = << >>
  /\ reputation_scores' = << >>
  /\ violation_count' = << >>
  /\ initiator' = 0
  /\ target' = 0
  /\ evaluation' = "none"
  /\ counter_evaluation' = "none"
  /\ commitment' = 0
  /\ error' = FALSE
  /\ cancelled' = FALSE
  /\ loaded' = NoFile
  /\ parsed_terms' = "unset"
  /\ proposals' = 0
  /\ UNCHANGED << file, episodes, variant >>

Exit ==
  /\ UNCHANGED << reply_vars, compare_vars, broadcast_vars, propose_vars, control_vars >>
  /\ pc = "final"
  /\ Forget

\* POST /simulation/stop while the task is not done: task.cancel(), and the
\* CancelledError is thrown where the task is suspended
Cancel ==
  /\ UNCHANGED << reply_vars, compare_vars, broadcast_vars, propose_vars, control_vars >>
  /\ variant = "web"
  /\ pc # "idle"
  /\ IF pc \in {"created", "final"}
     THEN \* not started yet, or in the last send after the save: the task ends
          Forget
     ELSE /\ pc \in AwaitPcs \cup YieldPcs \cup {"handler"}
          /\ cancelled' = TRUE
          /\ IF pc \in AwaitPcs
             THEN \* inside the generator: its `finally` saves and yields
                  file' = Save(Mem) /\ pc' = "saved"
             ELSE IF pc = "handler"
             THEN file' = Save(Mem) /\ pc' = "final"
             ELSE file' = file /\ pc' = "handler"
          /\ UNCHANGED << episodes, variant, proposals, num_classrooms, student_count, heap,
                          commitments_made, commitments_received, reputation_scores,
                          violation_count, initiator, target, evaluation,
                          counter_evaluation, commitment, parsed_terms, error, loaded >>

Next ==
  \/ StartCli
  \/ \E num \in 0..MaxClassrooms : RunSimulation(num)
  \/ TaskStart
  \/ BeginMonitoring
  \/ BroadcastTrafficState
  \/ AssessAndSelect
  \/ ProposeCommitment
  \/ \E reply \in Replies : EvaluateProposal(reply)
  \/ Respond
  \/ ResumeViolationCheck
  \/ \E reply \in CounterReplies : EvaluateCounter(reply)
  \/ CounterRespond
  \/ ModelCallFails
  \/ FinallySave
  \/ GeneratorEnds
  \/ HandlerEnds
  \/ Exit
  \/ Cancel

Spec == Init /\ [][Next]_vars

\* ------------------------------------------------ two debts to one peer ----
\* The episode on a state file in which C2 owes C1 two pending commitments.
TwiceFile(v) == IF v = "cli" THEN CliTwice ELSE WebTwice

InitTwice ==
  /\ variant \in {"cli", "web"}
  /\ file = TwiceFile(variant)
  /\ episodes = 0
  /\ pc = "idle"
  /\ num_classrooms = 0
  /\ student_count = << >>
  /\ heap = << >>
  /\ commitments_made = << >>
  /\ commitments_received = << >>
  /\ reputation_scores = << >>
  /\ violation_count = << >>
  /\ initiator = 0
  /\ target = 0
  /\ evaluation = "none"
  /\ counter_evaluation = "none"
  /\ commitment = 0
  /\ error = FALSE
  /\ cancelled = FALSE
  /\ loaded = NoFile
  /\ parsed_terms = "unset" /\ proposals = 0
  /\ reply_text = << >>
  /\ notified = << >> /\ broadcast_next = 0
  /\ script = << >> /\ persisted = << >>
  /\ congestion_level = 0 /\ adjustment = 0
  /\ simulation_task = 0 /\ tasks = << >> /\ requests = << >>
  /\ response = "none"

SpecTwice == InitTwice /\ [][Next]_vars

\* ------------------------------------------ propose_commitment alone ----
MaxPercent == 100

\* no run: the episode variables as the constructor finds them
NoRun ==
  /\ file = NoFile /\ episodes = 0 /\ pc = "idle" /\ num_classrooms = 0
  /\ student_count = << >> /\ heap = << >>
  /\ commitments_made = << >> /\ commitments_received = << >>
  /\ reputation_scores = << >> /\ violation_count = << >>
  /\ initiator = 0 /\ target = 0
  /\ evaluation = "none" /\ counter_evaluation = "none"
  /\ commitment = 0 /\ error = FALSE /\ cancelled = FALSE /\ loaded = NoFile
  /\ parsed_terms = "unset" /\ proposals = 0

InitPropose ==
  /\ variant \in {"cli", "web"}
  /\ NoRun
  /\ reply_text = << >>
  /\ notified = << >> /\ broadcast_next = 0
  /\ script = << >> /\ persisted = << >>
  /\ congestion_level \in 0..MaxPercent
  /\ adjustment = 0
  /\ simulation_task = 0 /\ tasks = << >> /\ requests = << >>
  /\ response = "none"

\* propose_commitment(target_agent, congestion_level), its first statement
HeuristicAdjustment ==
  /\ adjustment = 0
  /\ adjustment' = Adjustment(congestion_level)
  /\ UNCHANGED << episode_vars, reply_vars, compare_vars, broadcast_vars, congestion_level, control_vars >>

NextPropose == HeuristicAdjustment

SpecPropose == InitPropose /\ [][NextPropose]_vars

\* ------------------------------------ the start and stop routes (web) ----
MaxRequests == 2

Requests == 1..MaxRequests

\* a task of run_and_broadcast: where it is suspended (pc), CancelledError
\* passing through the generator (reraise), memory changed since the last
\* save (dirty), where the task was when the stop route first cancelled it
\* (stop_at: "created", "running" or "final"), a save executed since then
\* (saved_since_stop).  One update ("send") stands for all the updates an
\* episode yields before its finally clause.
NoTask == [pc |-> "none", reraise |-> FALSE, dirty |-> FALSE,
           stop_at |-> "none", saved_since_stop |-> FALSE]

\* `simulation_task and not simulation_task.done()`
Active(t) == t # 0 /\ tasks[t].pc \notin {"none", "done"}

\* asyncio.create_task(run_and_broadcast())
CreateTask == [NoTask EXCEPT !.pc = "created"]

SaveNothing(t) == t

\* save_commitments_to_file()
SaveState(t) ==
  [t EXCEPT !.dirty = FALSE, !.saved_since_stop = @ \/ t.stop_at # "none"]

\* the task runs from one suspension point to the next
Resume(t) ==
  CASE t.pc = "created" -> [t EXCEPT !.pc = "generator", !.dirty = TRUE]
    [] t.pc = "generator" -> [t EXCEPT !.pc = "send", !.dirty = TRUE]
    [] t.pc = "send" -> [t EXCEPT !.pc = "finishing", !.dirty = TRUE]
    [] t.pc = "finishing" -> SaveState([t EXCEPT !.pc = "saved"])
    [] t.pc = "saved" ->
         IF t.reraise THEN [t EXCEPT !.pc = "handler"]
         ELSE SaveState([t EXCEPT !.pc = "final"])
    [] t.pc = "handler" -> SaveState([t EXCEPT !.pc = "final"])
    [] t.pc = "final" -> [t EXCEPT !.pc = "done"]

\* simulation_task.cancel(): CancelledError is thrown where the task is
\* suspended
Throw(t) ==
  LET u == [t EXCEPT !.stop_at =
              IF @ # "none" THEN @
              ELSE IF t.pc \in {"created", "final"} THEN t.pc ELSE "running"]
  IN  CASE t.pc = "created" -> [u EXCEPT !.pc = "done"]
        [] t.pc \in {"generator", "finishing"} ->
             SaveState([u EXCEPT !.pc = "saved", !.reraise = TRUE])
        [] t.pc \in {"send", "saved"} -> [u EXCEPT !.pc = "handler"]
        [] t.pc = "handler" -> SaveState([u EXCEPT !.pc = "final"])
        [] t.pc = "final" -> [u EXCEPT !.pc = "done"]

InitCtl ==
  /\ variant = "web"
  /\ NoRun
  /\ reply_text = << >>
  /\ notified = << >> /\ broadcast_next = 0
  /\ script = << >> /\ persisted = << >>
  /\ congestion_level = 0 /\ adjustment = 0
  /\ simulation_task = 0
  /\ tasks = [r \in Requests |-> NoTask]
  /\ requests = [r \in Requests |-> "new"]
  /\ response = "none"

\* POST /simulation/run, up to `await request.form()`
RunSimulationCheck(r) ==
  /\ requests[r] = "new"
  /\ requests' = [requests EXCEPT
                    ![r] = IF Active(simulation_task) THEN "409" ELSE "form"]
  /\ UNCHANGED << episode_vars, reply_vars, compare_vars, broadcast_vars, propose_vars, simulation_task, tasks, response >>

\* POST /simulation/run, from the arrival of the form
RunSimulationCreate(r) ==
  /\ requests[r] = "form"
  /\ requests' = [requests EXCEPT ![r] = "Simulation started"]
  /\ tasks' = [tasks EXCEPT ![r] = CreateTask]
  /\ simulation_task' = r
  /\ UNCHANGED << episode_vars, reply_vars, compare_vars, broadcast_vars, propose_vars, response >>

\* POST /simulation/stop
StopSimulation ==
  /\ IF Active(simulation_task)
     THEN /\ tasks' = [tasks EXCEPT ![simulation_task] = Throw(@)]
          /\ response' = "Stop signal sent."
     ELSE /\ tasks' = tasks
          /\ response' = "No active simulation to stop."
  /\ UNCHANGED << episode_vars, reply_vars, compare_vars, broadcast_vars, propose_vars, simulation_task, requests >>

\* the event loop wakes the task
TaskStep(r) ==
  /\ tasks[r].pc \notin {"none", "done"}
  /\ tasks' = [tasks EXCEPT ![r] = Resume(@)]
  /\ UNCHANGED << episode_vars, reply_vars, compare_vars, broadcast_vars, propose_vars, simulation_task, requests,
                  response >>

NextCtl ==
  \/ \E r \in Requests : RunSimulationCheck(r)
  \/ \E r \in Requests : RunSimulationCreate(r)
  \/ StopSimulation
  \/ \E r \in Requests : TaskStep(r)

\* the event loop runs every task that can run
SpecCtl ==
  /\ InitCtl /\ [][NextCtl]_vars
  /\ \A r \in Requests : WF_vars(TaskStep(r))

\* ------------------------------------------------------------- claims ----
Agents == 1..num_classrooms

Tables(reps) == {reps[a] : a \in DOMAIN reps}

InRange(reps) ==
  \A t \in Tables(reps) : \A p \in DOMAIN t : t[p] \in MinScore..MaxScore

\* the records a run read as pending that are violated now
NewlyViolated ==
  {k \in 1..Len(loaded.commitments) :
     loaded.commitments[k].status = "pending" /\ heap[k].status = "violated"}

\* C1: every entry of every reputation table, in memory and in the state
\* file, is an integer from 0 to 15, in both variants and from every
\* state file.
C1_ReputationInRange == InRange(reputation_scores) /\ InRange(file.reputations)

\* a run in which the floor and the cap both acted: the target was found in
\* violation with the initiator's score for it below 5, and the deal was
\* recorded with the target's score for the initiator already at 15
C1_Witness ==
  /\ pc = "final"
  /\ ~error
  /\ NewlyViolated # {}
  /\ commitment # 0
  /\ reputation_scores[target][initiator] = MaxScore
  /\ loaded.reputations[target][initiator] = MaxScore
  /\ loaded.reputations[initiator][target] < ViolationPenalty

InList(list, id) == \E k \in 1..Len(list) : list[k] = id

\* C2: a commitment created by an episode is, when the episode completes,
\* in the made list of the debtor its record names and in the received
\* list of the creditor its record names, and in no other list.  Stated
\* for episodes that ran to their end without an error, and for records
\* naming two current participants.
C2_ListsFollowRecord ==
  (/\ pc = "final" /\ ~error /\ ~cancelled /\ commitment # 0
   /\ heap[commitment].debtor \in Agents
   /\ heap[commitment].creditor \in Agents)
  => \A a \in Agents :
       /\ InList(commitments_made[a], commitment) <=> a = heap[commitment].debtor
       /\ InList(commitments_received[a], commitment) <=> a = heap[commitment].creditor

\* nothing was changed since load_commitments_from_file
Untouched ==
  /\ heap = LoadHeap(loaded)
  /\ commitments_made = LoadMade(loaded, num_classrooms)
  /\ commitments_received = LoadReceived(loaded, num_classrooms)
  /\ reputation_scores = LoadReputations(loaded, variant, num_classrooms)

NoDuplicate(records) ==
  \A j, k \in 1..Len(records) : records[j] = records[k] => j = k

\* C3: a state file the program wrote, loaded and saved again at once, has
\* as many commitment records as before and no record twice, for every
\* classroom count and all names.
C3_RoundTripKeepsCount ==
  (pc = "final" /\ loaded.exists /\ Untouched)
  => /\ Len(file.commitments) = Len(loaded.commitments)
     /\ NoDuplicate(file.commitments)

\* positions in the initiator's made list of its pending commitments
PendingDebts ==
  {k \in 1..Len(commitments_made[initiator]) :
     heap[commitments_made[initiator][k]].status = "pending"}

CreditorAt(k) == heap[commitments_made[initiator][k]].creditor

\* C4 as claimed: an initiator with a pending commitment is given the
\* creditor of one of its pending commitments as target.
C4_CreditorFirst_Original ==
  (pc = "propose" /\ PendingDebts # {})
  => \E k \in PendingDebts : target = CreditorAt(k)

\* C4: an initiator with a pending commitment whose creditor is another
\* current participant is given the creditor of such a commitment as
\* target, whatever the reputation scores are.
C4_PeerCreditorFirst ==
  (pc = "propose" /\ \E k \in PendingDebts : CreditorAt(k) \in Agents \ {initiator})
  => \E k \in PendingDebts : target = CreditorAt(k)

\* the initiator owes a peer that is not the peer it rates highest
C4_Witness ==
  /\ pc = "propose"
  /\ \E k \in PendingDebts : target = CreditorAt(k)
  /\ \E p \in Agents \ {initiator, target} :
       reputation_scores[initiator][p] >= reputation_scores[initiator][target]

\* the statuses allowed to follow one another for one record
StatusStep(before, after) ==
  \A b \in before : \A a \in after :
    CommitId(a) = CommitId(b) =>
      \/ a.status = b.status
      \/ b.status = "pending" /\ a.status = "violated"

Records(seq) == {seq[k] : k \in DOMAIN seq}

\* C9: a commitment is created pending, its only change of status is from
\* pending to violated, in memory, in the state file, from the file into
\* memory (load) and from memory into the file (save), and it never is
\* fulfilled.
C9_StatusOnlyToViolated ==
  /\ [](\A r \in Records(heap) \cup Records(file.commitments) :
          r.status \in {"pending", "violated"})
  /\ [][(heap' # heap \/ file' # file) =>
          /\ StatusStep(Records(heap), Records(heap'))
          /\ StatusStep(Records(file.commitments), Records(file'.commitments))
          /\ StatusStep(Records(file.commitments), Records(heap'))
          /\ file' # file => StatusStep(Records(heap), Records(file'.commitments))
          /\ \A r \in Records(heap') :
               (\A b \in Records(heap) \cup Records(file.commitments) :
                  CommitId(b) # CommitId(r)) => r.status = "pending"]_vars

\* a run read one record as violated and one as pending, marked the
\* pending one and saved both
C9_Witness ==
  /\ pc = "final"
  /\ NewlyViolated # {}
  /\ \E k \in 1..Len(loaded.commitments) :
       /\ loaded.commitments[k].status = "violated"
       /\ \E j \in 1..Len(file.commitments) :
            /\ CommitId(file.commitments[j]) = CommitId(loaded.commitments[k])
            /\ file.commitments[j].status = "violated"
  /\ \E k \in NewlyViolated : \E j \in 1..Len(file.commitments) :
       file.commitments[j] = heap[k]

\* the records the target owed the initiator, pending, when it was chosen
OwedAtSelection ==
  {k \in 1..Len(loaded.commitments) :
     /\ loaded.commitments[k].debtor = target
     /\ loaded.commitments[k].creditor = initiator
     /\ loaded.commitments[k].status = "pending"}

\* C10 as claimed: a pending commitment the chosen target owes the
\* initiator is violated when the episode ends, whatever the reply.
C10_ViolatedWhateverReply ==
  (pc = "final" /\ ~cancelled /\ evaluation \in Replies)
  => \A k \in OwedAtSelection : heap[k].status = "violated"

\* C10: when the chosen target's reply does not accept (COUNTER or
\* REJECT) and the run is not cancelled, the pending commitments it owes
\* the initiator are violated when the episode ends: all of them in the
\* web variant, the first of them in the cli variant.  When the reply
\* accepts, no commitment changes status.
C10_ViolatedUnlessAccepted ==
  (pc = "final" /\ ~cancelled /\ evaluation \in Replies)
  => IF evaluation = "ACCEPT"
     THEN \A k \in 1..Len(loaded.commitments) :
            heap[k].status = loaded.commitments[k].status
     ELSE \A k \in OwedAtSelection :
            (variant = "web" \/ \A j \in OwedAtSelection : k <= j)
            => heap[k].status = "violated"

C10_Witness ==
  /\ pc = "final" /\ ~cancelled
  /\ evaluation = "REJECT"
  /\ \E k \in OwedAtSelection : heap[k].status = "violated"

\* what the initiator thought of the target, and the target of the
\* initiator, when the run had loaded its state
StartScore(a, b) == LoadReputations(loaded, variant, num_classrooms)[a][b]

AfterViolations(start) == Max2(MinScore, start - ViolationPenalty * Cardinality(NewlyViolated))

\* the saved commitments are in the lists of the participants they name
SavedAreRegistered ==
  \A k \in 1..Len(heap) :
    (\E j \in 1..Len(file.commitments) : file.commitments[j] = heap[k])
    => /\ heap[k].debtor \in Agents => InList(commitments_made[heap[k].debtor], k)
       /\ heap[k].creditor \in Agents => InList(commitments_received[heap[k].creditor], k)

\* each commitment violated by this run cost the violator five points with
\* the initiator (not below 0)
ViolationsAreCharged ==
  (initiator \in Agents /\ target \in Agents /\ NewlyViolated # {})
  => file.reputations[initiator][target]
       \in {AfterViolations(StartScore(initiator, target)),
            Min2(MaxScore, AfterViolations(StartScore(initiator, target)) + SuccessGain)}

\* a commitment created by this run and saved comes with the reputation
\* gain of both parties
NoHalfRecordedDeal ==
  (/\ commitment # 0
   /\ \E j \in 1..Len(file.commitments) : file.commitments[j] = heap[commitment])
  => /\ file.reputations[initiator][target]
          = Min2(MaxScore, AfterViolations(StartScore(initiator, target)) + SuccessGain)
     /\ file.reputations[target][initiator]
          = Min2(MaxScore, StartScore(target, initiator) + SuccessGain)
     /\ \E a \in Agents : InList(commitments_received[a], commitment)

\* C6: the state file a cancelled web run leaves behind is consistent: its
\* commitments are registered with debtor and creditor, every violation is
\* charged, no deal is saved without its reputation gain, scores are in
\* [0,15].
C6_CancelledRunSavesConsistentState ==
  (variant = "web" /\ pc = "final" /\ cancelled)
  => /\ SavedAreRegistered
     /\ ViolationsAreCharged
     /\ NoHalfRecordedDeal
     /\ InRange(file.reputations)

\* C5: the adjustment is -4 above 70 percent congestion, -2 above 40 and up
\* to 70 percent, -1 up to 40 percent.
C5_HeuristicAdjustment ==
  adjustment # 0 =>
    /\ congestion_level > 70 => adjustment = -4
    /\ (congestion_level > 40 /\ congestion_level <= 70) => adjustment = -2
    /\ congestion_level <= 40 => adjustment = -1

C5_Witness == congestion_level = 70 /\ adjustment = -2

ActiveTasks == {t \in DOMAIN tasks : tasks[t].pc \notin {"none", "done"}}

\* C7: at most one simulation task is active at any time.
C7_AtMostOneActiveTask == Cardinality(ActiveTasks) <= 1

Cancelled(t) == tasks[t].stop_at # "none"

\* C8 as claimed: a run the stop route cancelled has executed
\* save_commitments_to_file after the cancellation when it has ended.
C8_SavedAfterCancellation ==
  \A t \in DOMAIN tasks :
    (tasks[t].pc = "done" /\ Cancelled(t)) => tasks[t].saved_since_stop

\* C8: a run the stop route cancelled terminates; when it has ended, what
\* it changed in memory is saved, and a save was executed after the
\* cancellation unless the cancellation reached the task before its first
\* step or in its last broadcast, after the save.  A stop request without an
\* active run leaves the tasks alone and answers that there is nothing to
\* stop.
C8_CancelledRunEndsSaved ==
  /\ \A t \in Requests : Cancelled(t) ~> tasks[t].pc = "done"
  /\ [](\A t \in Requests :
          tasks[t].pc = "done" =>
            /\ ~tasks[t].dirty
            /\ (Cancelled(t) /\ tasks[t].stop_at \notin {"created", "final"})
                 => tasks[t].saved_since_stop)
  /\ [][(response' # response /\ response' = "No active simulation to stop.")
        => /\ ~Active(simulation_task)
           /\ tasks' = tasks /\ simulation_task' = simulation_task]_vars
  /\ [][(response' # response /\ ~Active(simulation_task))
        => response' = "No active simulation to stop."]_vars

C8_Witness ==
  \E t \in DOMAIN tasks :
    /\ tasks[t].pc = "done"
    /\ tasks[t].stop_at = "running"
    /\ tasks[t].saved_since_stop
    /\ response = "No active simulation to stop."

\* ------------------------------------------------------------------ C11 ----
\* the score `a` holds for `b` after a success update between the two parties
\* of the episode: one more than before, at most MaxScore, for the pair only
AfterSuccess(rep, a, b) ==
  IF {a, b} = {initiator, target}
  THEN Min2(MaxScore, Get(rep[a], b, InitialScore) + SuccessGain)
  ELSE rep[a][b]

\* the step that records a deal: a commitment appears and nothing was raised
DealRecorded == commitment = 0 /\ commitment' # 0 /\ ~error'

\* C11: the step that records a deal raises the initiator's score for the
\* target and the target's score for the initiator by exactly 1, capped at
\* 15, and leaves every other reputation entry of every participant as it was
C11_SuccessRaisesBothByOne ==
  [][DealRecorded =>
       \A a \in Agents :
          /\ DOMAIN reputation_scores'[a] =
               DOMAIN reputation_scores[a]
                 \cup (IF a = initiator THEN {target}
                       ELSE IF a = target THEN {initiator} ELSE {})
          /\ \A b \in DOMAIN reputation_scores'[a] :
               reputation_scores'[a][b] = AfterSuccess(reputation_scores, a, b)]_vars

\* a finished episode of three classrooms that recorded a deal on a first
\* run: the two parties hold 11 for each other, every other entry is 10
C11_Witness ==
  /\ pc = "final" /\ commitment # 0 /\ ~error /\ ~cancelled
  /\ loaded = NoFile /\ num_classrooms = 3
  /\ reputation_scores[initiator][target] = InitialScore + SuccessGain
  /\ reputation_scores[target][initiator] = InitialScore + SuccessGain
  /\ \A a \in Agents : \A b \in DOMAIN reputation_scores[a] :
        {a, b} # {initiator, target} => reputation_scores[a][b] = InitialScore

\* ------------------------------------------------------------------ C12 ----
\* the commitments a step turns from pending to violated
ViolatedInStep ==
  {k \in 1..Min2(Len(heap), Len(heap')) :
     heap[k].status = "pending" /\ heap'[k].status = "violated"}

\* the tables after the initiator charged the violator once
Charged(rep) ==
  [rep EXCEPT ![initiator] =
     Put(@, target, Max2(MinScore, Get(@, target, InitialScore) - ViolationPenalty))]

\* C12: the step that detects a violation lowers the initiator's score for
\* the violator by 5, not below 0, leaves every other entry of every table
\* as it was, and raises nothing, in the cli variant as in the web variant
C12_ViolationLowersScore ==
  [][ViolatedInStep # {} =>
       /\ reputation_scores' = Charged(reputation_scores)
       /\ ~error']_vars

\* the same statement for the web variant alone
C12_WebViolationLowersScore ==
  [][(variant = "web" /\ ViolatedInStep # {}) =>
       /\ reputation_scores' = Charged(reputation_scores)
       /\ ~error']_vars

\* a web episode that charged a violation and ended without an error
C12_WebWitness ==
  /\ variant = "web" /\ pc = "final" /\ ~error /\ ~cancelled
  /\ NewlyViolated # {}
  /\ commitment = 0
  /\ reputation_scores[initiator][target] = AfterViolations(StartScore(initiator, target))

\* ------------------------------------------------------------------ C13 ----
\* the step in which parse_commitment_from_text returned one of `kinds`
ParsedInStep(kinds) == parsed_terms = "unset" /\ parsed_terms' \in kinds

\* the step records nothing, raises nothing, repeats nothing and leads to
\* the normal end of the episode
FragmentIgnored ==
  /\ commitment' = 0
  /\ heap' = heap
  /\ commitments_made' = commitments_made
  /\ commitments_received' = commitments_received
  /\ reputation_scores' = reputation_scores
  /\ proposals' = proposals
  /\ ~error'
  /\ pc' = (IF variant = "web" THEN "wrapup" ELSE "final")

\* C13: when the fragment of an accepted proposal or accepted counter-offer
\* is malformed (nothing parsed, an empty object, or an object whose keys
\* are not create_commitment's four), no commitment is added, no score
\* changes, nothing is retried and the episode goes to its normal end
\* without an error event
C13_MalformedFragmentIgnored ==
  [][ParsedInStep({"none", "empty", "badkeys"}) => FragmentIgnored]_vars

\* the same statement for the fragments that `if parsed_terms:` rejects
C13_UnparsedFragmentIgnored ==
  [][ParsedInStep({"none", "empty"}) => FragmentIgnored]_vars

\* an accepted proposal without a usable fragment ended the episode normally
C13_UnparsedWitness ==
  /\ pc = "final" /\ ~error /\ ~cancelled
  /\ parsed_terms = "empty" /\ evaluation = "ACCEPT" /\ commitment = 0

\* ------------------------------------------------------------------ C14 ----
\* where an episode is once its except clause has run
AfterFailurePcs == {"error", "saved", "handler", "final"}

\* the step in which a phase raises
FailureInStep == ~error /\ error'

\* what the state file holds when it was written from the objects in memory
SavedFromMemory ==
  SaveCommitmentsToFile(heap, commitments_made, reputation_scores, num_classrooms)

\* C14: a failure raised in a phase of the episode is caught by the episode:
\* the step that raises goes to the except clause (one error event in the
\* web variant, printed and saved at once in the cli), the error event is
\* sent once, no phase runs again after it, no second proposal is made, and
\* the episode ends with the state file written from memory
C14_FailureCaughtAndSaved ==
  /\ [][FailureInStep =>
          IF variant = "web" THEN pc' = "error" /\ file' = file
          ELSE pc' = "final" /\ file' = SavedFromMemory']_vars
  /\ [][(pc # "error" /\ pc' = "error") => FailureInStep]_vars
  /\ [][(pc = "error" /\ pc' # "error") => pc' \in {"saved", "handler"}]_vars
  /\ [](error => pc \in AfterFailurePcs /\ proposals <= 1)
  /\ []((error /\ pc = "final") => file = SavedFromMemory)

\* a web episode whose list lookup raised after the commitment was created
\* and appended to the debtor's list; the file was saved afterwards
C14_Witness ==
  /\ variant = "web" /\ pc = "final" /\ error /\ ~cancelled
  /\ commitment # 0
  /\ \E a \in Agents : InList(commitments_made[a], commitment)
  /\ file = SavedFromMemory
  /\ file # loaded

\* ------------------------------------------------------------------ C15 ----
\* the episode has its objects and has not yet reached its first model call
JustConstructed == pc \in {"setup", "monitor"}

\* C15: when the state file does not exist, loading raises nothing and the
\* run is a first run: every participant's commitments_made and
\* commitments_received are empty and its reputation table holds exactly
\* the score 10 for each other participant
C15_MissingFileIsFirstRun ==
  (JustConstructed /\ ~file.exists)
  => /\ ~error
     /\ heap = << >>
     /\ \A a \in Agents :
          /\ commitments_made[a] = << >>
          /\ commitments_received[a] = << >>
          /\ DOMAIN reputation_scores[a] = Agents \ {a}
          /\ \A b \in Agents \ {a} : reputation_scores[a][b] = InitialScore

\* a run of three classrooms constructed without a state file
C15_Witness ==
  /\ JustConstructed /\ ~file.exists /\ num_classrooms = 3
  /\ reputation_scores[3] = (1 :> InitialScore) @@ (2 :> InitialScore)

\* ------------------------------------------------------------------ C16 ----
\* the state file holds the record a list entry refers to
InFile(k) == \E j \in 1..Len(file.commitments) : file.commitments[j] = heap[k]

\* the state file holds every participant's full reputation table
TablesSaved == file.reputations = [a \in Agents |-> reputation_scores[a]]

\* C16: after the save that ends an episode, the state file holds every
\* commitment of every current participant's commitments_made and
\* commitments_received list, and every participant's full reputation table
C16_SaveHoldsEveryCommitment ==
  pc = "final"
  => /\ \A a \in Agents :
          /\ \A j \in 1..Len(commitments_made[a]) : InFile(commitments_made[a][j])
          /\ \A j \in 1..Len(commitments_received[a]) : InFile(commitments_received[a][j])
     /\ TablesSaved

\* the same statement for the commitments_made lists alone
C16_SaveHoldsMadeLists ==
  pc = "final"
  => /\ \A a \in Agents :
          \A j \in 1..Len(commitments_made[a]) : InFile(commitments_made[a][j])
     /\ TablesSaved

\* an episode that ended with a commitment in a made list and in the file
C16_MadeWitness ==
  /\ pc = "final" /\ commitment # 0 /\ ~error
  /\ \E a \in Agents : InList(commitments_made[a], commitment)
  /\ InFile(commitment)

\* ------------------------------------------------------------------ C17 ----
\* the record behind position j of a list (the lists hold references)
Entry(list, j) == heap[list[j]]

\* an entry of a made list and an entry of a received list with the same
\* identity are one object: same fields, same status
OneRecord ==
  \A a \in DOMAIN commitments_made : \A b \in DOMAIN commitments_received :
    \A j \in 1..Len(commitments_made[a]) : \A k \in 1..Len(commitments_received[b]) :
      CommitId(Entry(commitments_made[a], j)) = CommitId(Entry(commitments_received[b], k))
      => /\ commitments_made[a][j] = commitments_received[b][k]
         /\ Entry(commitments_made[a], j) = Entry(commitments_received[b], k)

\* after a load, each saved record is one object in the made list of its
\* debtor and in the received list of its creditor (when they take part)
LoadedOnce ==
  JustConstructed
  => /\ heap = file.commitments
     /\ \A k \in 1..Len(heap) :
          /\ heap[k].debtor \in Agents => InList(commitments_made[heap[k].debtor], k)
          /\ heap[k].creditor \in Agents
               => InList(commitments_received[heap[k].creditor], k)

\* a commitment violated through the debtor's made list is the violated
\* entry of its creditor's received list
ViolationSeenByCreditor ==
  \A k \in NewlyViolated :
    heap[k].creditor \in Agents
    => \E j \in 1..Len(commitments_received[heap[k].creditor]) :
         /\ commitments_received[heap[k].creditor][j] = k
         /\ Entry(commitments_received[heap[k].creditor], j).status = "violated"

\* C17: the entry in the debtor's made list and the entry in the creditor's
\* received list are one record with the same fields and status at every
\* point, also after a save followed by a load, so a change to violated
\* made through the debtor's list is seen through the creditor's list
C17_OneLogicalRecord == OneRecord /\ LoadedOnce /\ ViolationSeenByCreditor

\* a run that loaded a saved commitment and violated it: the entry of the
\* target's made list and of the initiator's received list is violated
C17_Witness ==
  /\ loaded.exists /\ initiator \in Agents /\ target \in Agents
  /\ \E k \in NewlyViolated :
       /\ InList(commitments_made[target], k)
       /\ InList(commitments_received[initiator], k)
       /\ heap[k].status = "violated"

\* ------------------------------------------------------------------ C18 ----
\* the commitments this run created
CreatedInRun == Len(heap) - Len(loaded.commitments)

\* the episode ran to its end: nothing raised, not stopped
CompletedNormally == pc = "final" /\ ~error /\ ~cancelled

\* C18 as claimed: every episode that ran to its end made exactly one
\* proposal and created at most one commitment, for every classroom count,
\* 0 and 1 included
C18_ExactlyOneProposal_Original ==
  /\ CompletedNormally => proposals = 1
  /\ CreatedInRun <= 1

\* C18: an episode makes at most one proposal and creates at most one
\* commitment, and a commitment only after a proposal, for every classroom
\* count; with fewer than two classrooms it makes no proposal and creates no
\* commitment (0: the episode ends in its except clause, 1: it ends after
\* "Not enough agents to negotiate"); with two or more classrooms an episode
\* that ran to its end made exactly one proposal
C18_AtMostOneProposal ==
  /\ proposals <= 1
  /\ CreatedInRun <= 1
  /\ CreatedInRun = 1 => proposals = 1
  /\ num_classrooms < 2 => proposals = 0 /\ CreatedInRun = 0
  /\ (pc = "final" /\ ~cancelled /\ num_classrooms = 0) => error
  /\ (CompletedNormally /\ num_classrooms >= 2) => proposals = 1

\* an episode of two or more classrooms that ran to its end with its one
\* proposal and one commitment
C18_Witness ==
  /\ CompletedNormally /\ num_classrooms >= 2
  /\ proposals = 1 /\ CreatedInRun = 1 /\ commitment # 0

\* an episode of one classroom that ran to its end without a proposal
C18_LoneWitness ==
  /\ CompletedNormally /\ num_classrooms = 1 /\ proposals = 0

\* ------------------------------------------------------------------ C19 ----
\* the step in which the target's reply arrives and is a counter
CounterInStep == evaluation = "none" /\ evaluation' = "COUNTER"

\* a step of the web generator between the counter reply and the counter
\* evaluation that is not a stop request
WebStepBeforeCounter ==
  /\ evaluation = "COUNTER" /\ pc \in {"respond", "violation"}
  /\ pc' # pc /\ ~cancelled'

\* the counter-offer is evaluated once, nothing is asked of a model after
\* it, and only its acceptance creates a commitment
OneCounterEvaluation ==
  /\ [][counter_evaluation' # counter_evaluation /\ pc # "final"
          => /\ pc = "counter" /\ counter_evaluation = "none"
             /\ counter_evaluation' \in CounterReplies
             /\ pc' \in {"counter_respond", "final"}]_vars
  /\ [](counter_evaluation # "none" => evaluation = "COUNTER" /\ pc \notin AwaitPcs)
  /\ []((evaluation = "COUNTER" /\ commitment # 0) => counter_evaluation = "ACCEPT")
  /\ []((evaluation = "COUNTER" /\ CompletedNormally) => counter_evaluation \in CounterReplies)

\* C19: when the target's reply is a counter, the episode goes on to the
\* initiator's evaluation of the counter-offer, which happens exactly once;
\* the negotiation ends with it (at most two evaluations, no answer to a
\* second counter), and a commitment comes from the counter-offer only if
\* that evaluation is an acceptance
C19_CounterEvaluatedOnce ==
  /\ [][CounterInStep => pc' \in {"respond", "counter"}]_vars
  /\ [][WebStepBeforeCounter => pc' \in {"violation", "counter"}]_vars
  /\ OneCounterEvaluation

\* the same statement for the web variant alone
C19_WebCounterEvaluatedOnce ==
  /\ [][(variant = "web" /\ CounterInStep) => pc' \in {"respond", "counter"}]_vars
  /\ [][WebStepBeforeCounter => pc' \in {"violation", "counter"}]_vars
  /\ OneCounterEvaluation

\* a counter-offer that was accepted and recorded, after a violation
C19_WebWitness ==
  /\ variant = "web" /\ CompletedNormally
  /\ evaluation = "COUNTER" /\ counter_evaluation = "ACCEPT"
  /\ commitment # 0 /\ NewlyViolated # {}

\* ------------------------------------------------ the target's reply ----
\* A second specification for the text of the target's reply: an episode
\* that has made its proposal receives a reply text and runs to its end.
\* Texts are sequences of characters.
MaxBlanks == 1

LowerCase == << "a", "c", "e", "j", "n", "o", "p", "r", "t", "u" >>
UpperCase == << "A", "C", "E", "J", "N", "O", "P", "R", "T", "U" >>
Blank == " "

\* str.upper, one character
UpperChar(ch) ==
  IF \E i \in 1..Len(LowerCase) : LowerCase[i] = ch
  THEN UpperCase[CHOOSE i \in 1..Len(LowerCase) : LowerCase[i] = ch]
  ELSE ch

\* str.upper
Upper(s) == [i \in 1..Len(s) |-> UpperChar(s[i])]

\* str.strip: without the blanks at both ends
Strip(s) ==
  LET inked == {i \in 1..Len(s) : s[i] # Blank}
  IN  IF inked = {} THEN << >>
      ELSE SubSeq(s, SetMin(inked), CHOOSE i \in inked : \A j \in inked : j <= i)

\* str.startswith
StartsWith(s, prefix) ==
  /\ Len(prefix) <= Len(s)
  /\ SubSeq(s, 1, Len(prefix)) = prefix

AcceptPrefix == << "A", "C", "C", "E", "P", "T" >>
CounterPrefix == << "C", "O", "U", "N", "T", "E", "R" >>

\* a classification that does not trim the reply
ClassifyUntrimmed(text) ==
  IF StartsWith(Upper(text), AcceptPrefix) THEN "ACCEPT"
  ELSE IF StartsWith(Upper(text), CounterPrefix) THEN "COUNTER"
  ELSE "REJECT"

\* the if / elif / else on evaluation.strip().upper().startswith(...)
Classify(text) ==
  IF StartsWith(Upper(Strip(text)), AcceptPrefix) THEN "ACCEPT"
  ELSE IF StartsWith(Upper(Strip(text)), CounterPrefix) THEN "COUNTER"
  ELSE "REJECT"

\* the replies of the model: a word in some case, after some blanks, with
\* something behind it
ReplyWords ==
  { AcceptPrefix, << "a", "c", "c", "e", "p", "t" >>, << "A", "c", "c", "e", "p", "t" >>,
    CounterPrefix, << "c", "o", "u", "n", "t", "e", "r" >>,
    << "C", "o", "u", "n", "t", "e", "r" >>,
    << "R", "E", "J", "E", "C", "T" >>, << "r", "e", "j", "e", "c", "t" >>,
    << "A", "C", "C", "E", "P" >>, << "C", "O", "U", "N", "T" >>,
    << "N", "O", " ", "A", "C", "C", "E", "P", "T" >>,
    << "A", " ", "C", "O", "U", "N", "T", "E", "R" >>,
    << >> }

ReplyTails == { << >>, << Blank >>, << ":", Blank, "o", "n", "e" >>, << "E", "R" >> }

Blanks(n) == [i \in 1..n |-> Blank]

ReplyTexts ==
  { Blanks(n) \o w \o t : n \in 0..MaxBlanks, w \in ReplyWords, t \in ReplyTails }

\* an episode that has made its proposal: the objects as loaded, initiator
\* and target as selected, the target's model call under way
InitReply ==
  /\ variant \in {"cli", "web"}
  /\ file \in StateFiles(variant)
  /\ episodes = 1
  /\ num_classrooms = CliClassrooms
  /\ student_count \in StudentCountVectors(num_classrooms)
  /\ heap = LoadHeap(file)
  /\ commitments_made = LoadMade(file, num_classrooms)
  /\ commitments_received = LoadReceived(file, num_classrooms)
  /\ reputation_scores = LoadReputations(file, variant, num_classrooms)
  /\ violation_count = [a \in 1..num_classrooms |-> 0]
  /\ loaded = file
  /\ initiator = Initiator(student_count, num_classrooms)
  /\ target = SelectNegotiationTarget(heap, commitments_made, reputation_scores,
                                      initiator, num_classrooms)
  /\ target \in 1..num_classrooms
  /\ pc = "evaluate"
  /\ proposals = 1
  /\ evaluation = "none" /\ counter_evaluation = "none"
  /\ commitment = 0 /\ parsed_terms = "unset"
  /\ error = FALSE /\ cancelled = FALSE
  /\ reply_text \in ReplyTexts
  /\ notified = << >> /\ broadcast_next = 0
  /\ script = << >> /\ persisted = << >>
  /\ congestion_level = 0 /\ adjustment = 0
  /\ simulation_task = 0 /\ tasks = << >> /\ requests = << >>
  /\ response = "none"

\* target.evaluate_proposal returns the text
EvaluateReply == EvaluateProposal(Classify(reply_text))

NextReply ==
  \/ EvaluateReply
  \/ Respond
  \/ ResumeViolationCheck
  \/ \E reply \in CounterReplies : EvaluateCounter(reply)
  \/ CounterRespond
  \/ FinallySave
  \/ GeneratorEnds

SpecReply == InitReply /\ [][NextReply]_vars

\* ------------------------------------------------------------------ C20 ----
\* the reply as the branch sees it
Folded == Upper(Strip(reply_text))

\* no score of the run is above what the run started with
NoScoreRaised ==
  \A a \in Agents : \A b \in DOMAIN reputation_scores[a] :
    /\ b \in DOMAIN LoadReputations(loaded, variant, num_classrooms)[a]
    /\ reputation_scores[a][b] <= StartScore(a, b)

\* the path of an accepted proposal: the fragment is parsed, no violation
\* check, no counter round
CommitmentPath ==
  /\ evaluation = "ACCEPT" /\ counter_evaluation = "none" /\ NewlyViolated = {}
  /\ pc = "final" => parsed_terms # "unset"

\* the counter round: the violation check, then the initiator's evaluation
CounterPath ==
  /\ evaluation = "COUNTER"
  /\ CompletedNormally => counter_evaluation \in CounterReplies

\* the reject path: nothing parsed, no commitment, no counter round, no
\* score raised
RejectPath ==
  /\ evaluation = "REJECT" /\ counter_evaluation = "none"
  /\ parsed_terms = "unset" /\ commitment = 0 /\ CreatedInRun = 0
  /\ NoScoreRaised

\* C20: the branch after the target's reply depends only on the prefix of
\* the trimmed, case-folded reply: ACCEPT takes the commitment path,
\* COUNTER the counter round, and every other reply (REJECT, empty text,
\* anything else) the reject path, in which no commitment is created and no
\* score is raised
C20_BranchByPrefix ==
  evaluation # "none"
  => IF StartsWith(Folded, AcceptPrefix) THEN CommitmentPath
     ELSE IF StartsWith(Folded, CounterPrefix) THEN CounterPath
     ELSE RejectPath

\* a reply of blanks and lower case letters that took the commitment path
C20_Witness ==
  /\ pc = "final" /\ commitment # 0 /\ ~error
  /\ reply_text = << Blank, "a", "c", "c", "e", "p", "t", ":", Blank, "o", "n", "e" >>

\* an empty reply that took the reject path and charged a violation
C20_EmptyWitness ==
  /\ pc = "final" /\ reply_text = << >> /\ evaluation = "REJECT"
  /\ NewlyViolated # {} /\ variant = "web"

\* ------------------------------------------------------------------ C21 ----
\* the participants other than the initiator
Peers == Agents \ {initiator}

\* the initiator owes a pending commitment to a current peer
OwesPeer == \E k \in PendingDebts : CreditorAt(k) \in Peers

\* the pair is selected and nothing has happened to it yet
PairSelected == pc \in {"propose", "evaluate"}

\* C21: the initiator is a participant with the highest student count; when
\* it owes no pending commitment to a current peer the target is a peer
\* with the highest score in the initiator's table; with one participant no
\* target is returned and no negotiation takes place
C21_SelectionHeuristic ==
  /\ PairSelected
     => /\ initiator \in Agents
        /\ \A a \in Agents : student_count[a] <= student_count[initiator]
        /\ target \in Peers
        /\ ~OwesPeer
           => \A q \in Peers :
                reputation_scores[initiator][q] <= reputation_scores[initiator][target]
  /\ num_classrooms = 1
     => /\ ~PairSelected
        /\ target = NoTarget /\ proposals = 0
        /\ evaluation = "none" /\ commitment = 0

\* an initiator with the high student count that owes nothing and rates
\* its target above another peer
C21_Witness ==
  /\ PairSelected /\ ~OwesPeer /\ num_classrooms = 3
  /\ \E a \in Agents : student_count[a] < student_count[initiator]
  /\ \E q \in Peers :
       reputation_scores[initiator][q] < reputation_scores[initiator][target]

\* a run of one participant that ended without a target
C21_LoneWitness ==
  /\ num_classrooms = 1 /\ CompletedNormally
  /\ initiator = 1 /\ target = NoTarget

\* ------------------------------------------------------------------ C22 ----
\* the place of each step in the script of an episode
PhaseOrder ==
  << "idle", "created", "setup", "monitor", "assess", "propose", "evaluate",
     "respond", "violation", "counter", "counter_respond", "wrapup", "error",
     "saved", "handler", "final" >>

Rank(p) == CHOOSE i \in 1..Len(PhaseOrder) : PhaseOrder[i] = p

\* the step changes a commitment, a list or a score of the constructed run
BookkeepingInStep ==
  /\ pc \notin {"idle", "created", "final"}
  /\ pc' # "idle"
  /\ \/ heap' # heap
     \/ commitments_made' # commitments_made
     \/ commitments_received' # commitments_received
     \/ reputation_scores' # reputation_scores
     \/ violation_count' # violation_count

\* C22: the phases of an episode follow one another in the fixed order
\* broadcast, assessments, selection, proposal, response (and counter
\* round), updates, save: the proposal comes after the pair is selected, no
\* commitment, list or score changes before the target's response, and the
\* save is the last state-changing step of every episode that ends, early
\* or with an error as well
C22_PhasesInOrder ==
  /\ [][(pc' # pc /\ pc' # "idle") => Rank(pc') > Rank(pc)]_vars
  /\ [][proposals' # proposals /\ pc' # "idle"
          => initiator \in Agents /\ target \in Agents /\ evaluation = "none"]_vars
  /\ [][BookkeepingInStep => evaluation' \in Replies]_vars
  /\ [][(file' # file) =>
          /\ file' = SaveCommitmentsToFile(heap', commitments_made',
                                          reputation_scores', num_classrooms')
          /\ pc' \in {"saved", "final"}]_vars
  /\ [][(pc \in {"saved", "final"} /\ pc' # "idle") => ~BookkeepingInStep]_vars
  /\ [](pc = "final" => file = SavedFromMemory)

\* an episode that changed a status, recorded a deal and ended saved
C22_Witness ==
  /\ pc = "final" /\ ~error /\ ~cancelled
  /\ NewlyViolated # {} /\ commitment # 0
  /\ file = SavedFromMemory /\ file # loaded

\* -------------------------------------------------- broadcast_commitment ----
\* A specification for the deal notification: a first run in which a deal
\* has just been recorded sends the notification and ends.

\* the agents broadcast_commitment notifies: every agent whose name is
\* neither the commitment's debtor nor its creditor
BystandersAndCreditor(c, n) == {a \in 1..n : a # c.debtor}

Bystanders(c, n) == {a \in 1..n : a # c.debtor /\ a # c.creditor}

\* the bookkeeping of a first run before its deal
FirstRunMem(n) ==
  [heap |-> << >>, made |-> [a \in 1..n |-> << >>], received |-> [a \in 1..n |-> << >>],
   scores |-> [a \in 1..n |-> InitTable(a, n)], violations |-> [a \in 1..n |-> 0],
   commitment |-> 0, parsed |-> "unset", raised |-> FALSE]

\* the state in which broadcast_commitment is called: the commitment is
\* created, in the lists, and the success update is done
InitBroadcast ==
  \E v \in {"cli", "web"}, n \in 2..MaxClassrooms, path \in {"direct", "counter"} :
    \E sc \in StudentCountVectors(n), d, c \in 0..n :
      LET m0 == FirstRunMem(n)
          i  == Initiator(sc, n)
          t  == SelectNegotiationTarget(m0.heap, m0.made, m0.scores, i, n)
          m  == RecordDeal(m0, v, path, i, t,
                           [kind |-> "terms", debtor |-> d, creditor |-> c], 1, n)
      IN  /\ ~m.raised
          /\ variant = v /\ file = NoFile /\ loaded = NoFile /\ episodes = 1
          /\ num_classrooms = n /\ student_count = sc
          /\ initiator = i /\ target = t
          /\ heap = m.heap
          /\ commitments_made = m.made
          /\ commitments_received = m.received
          /\ reputation_scores = m.scores
          /\ violation_count = m.violations
          /\ commitment = m.commitment
          /\ parsed_terms = m.parsed
          /\ proposals = 1
          /\ evaluation = (IF path = "direct" THEN "ACCEPT" ELSE "COUNTER")
          /\ counter_evaluation = (IF path = "direct" THEN "none" ELSE "ACCEPT")
          /\ error = FALSE /\ cancelled = FALSE
          /\ pc = "broadcast"
          /\ notified = [a \in 1..n |-> 0] /\ broadcast_next = 1
          /\ script = << >> /\ persisted = << >>
          /\ reply_text = << >>
          /\ congestion_level = 0 /\ adjustment = 0
          /\ simulation_task = 0 /\ tasks = << >> /\ requests = << >>
          /\ response = "none"

\* one turn of `for agent in self.classroom_agents`: the next agent that is
\* no party of the commitment gets the message
NotifyNext ==
  /\ pc = "broadcast"
  /\ \E a \in Bystanders(heap[commitment], num_classrooms) :
       /\ a >= broadcast_next
       /\ \A b \in Bystanders(heap[commitment], num_classrooms) : b >= broadcast_next => a <= b
       /\ notified' = [notified EXCEPT ![a] = @ + 1]
       /\ broadcast_next' = a + 1
  /\ UNCHANGED << episode_vars, reply_vars, compare_vars, propose_vars, control_vars >>

\* the loop is through: the episode goes on to its end
BroadcastDone ==
  /\ pc = "broadcast"
  /\ \A a \in Bystanders(heap[commitment], num_classrooms) : a < broadcast_next
  /\ IF variant = "cli" THEN FinishCli(Mem, FALSE) ELSE ContinueWeb(Mem, "wrapup")
  /\ UNCHANGED << episodes, variant, proposals, num_classrooms, student_count, initiator,
                  target, evaluation, counter_evaluation, cancelled, loaded >>
  /\ UNCHANGED << reply_vars, compare_vars, broadcast_vars, propose_vars, control_vars >>

NextBroadcast ==
  \/ NotifyNext
  \/ BroadcastDone
  \/ FinallySave
  \/ GeneratorEnds

SpecBroadcast == InitBroadcast /\ [][NextBroadcast]_vars

KeptInStep(r) ==
  \E k \in 1..Len(file'.commitments) :
    /\ CommitId(file'.commitments[k]) = CommitId(r)
    /\ file'.commitments[k].status \in {r.status, "violated"}

\* C24: a commitment record that is in the state file is in the file after
\* every later save, with its status unchanged or changed to violated,
\* whatever the classroom count and the replies of the later run
C24_SavedRecordsAreKept ==
  [][file' # file =>
       \A j \in 1..Len(file.commitments) : KeptInStep(file.commitments[j])]_vars

\* the same statement for the records whose debtor takes part in the run
\* that saves
C24_RecordsOfParticipantsAreKept ==
  [][file' # file =>
       \A j \in 1..Len(file.commitments) :
         file.commitments[j].debtor \in Agents => KeptInStep(file.commitments[j])]_vars

\* a run that saved again a record it had loaded, now violated
C24_KeptWitness ==
  /\ pc = "final" /\ loaded.exists /\ file # loaded
  /\ \E k \in NewlyViolated :
       \E j \in 1..Len(file.commitments) : file.commitments[j] = heap[k]

\* ------------------------------------------------ the two variants ----
\* A specification that gives one state file, one vector of student counts
\* and one sequence of model replies to an episode of each variant and
\* keeps the state file each of them ends with.

\* the objects after load_commitments_from_file
LoadedMem(v, f, n) ==
  [heap |-> LoadHeap(f), made |-> LoadMade(f, n), received |-> LoadReceived(f, n),
   scores |-> LoadReputations(f, v, n), violations |-> [a \in 1..n |-> 0],
   commitment |-> 0, parsed |-> "unset", raised |-> FALSE]

\* web check_for_violation, the whole loop
RECURSIVE CheckForViolationAll(_, _, _)
CheckForViolationAll(m, violator, init) ==
  IF FirstOwed(m.heap, m.made, violator, init) = 0 THEN m
  ELSE CheckForViolationAll(
         ViolationFound(m, "web", violator, init,
                        FirstOwed(m.heap, m.made, violator, init)),
         violator, init)

\* step 4 of an episode of variant v on the objects m, with the target's
\* reply, the initiator's reply to a counter-offer and the fragment carried
\* by the text that is parsed
NegotiationEnd(m, v, i, t, s, n) ==
  IF s.reply = "ACCEPT" THEN RecordDeal(m, v, "direct", i, t, s.fragment, 1, n)
  ELSE LET m1 == IF v = "cli" THEN CheckForViolationCli(m, t, i)
                 ELSE CheckForViolationAll(m, t, i)
       IN  IF m1.raised \/ s.reply # "COUNTER" \/ s.counter_reply # "ACCEPT" THEN m1
           ELSE RecordDeal(m1, v, "counter", i, t, s.fragment, 1, n)

\* the state file at the end of an episode of variant v run on script s
EpisodeEnd(v, s) ==
  LET n == CliClassrooms
      m == LoadedMem(v, s.file, n)
      i == Initiator(s.students, n)
      t == SelectNegotiationTarget(m.heap, m.made, m.scores, i, n)
      e == IF t \in 1..n THEN NegotiationEnd(m, v, i, t, s, n) ELSE m
  IN  SaveCommitmentsToFile(e.heap, e.made, e.scores, n)

NotRun == [exists |-> FALSE, commitments |-> << >>, reputations |-> << >>]

Scripts ==
  [file : {NoFile, CliVeteran, WebVeteran, WebThree},
   students : StudentCountVectors(CliClassrooms),
   reply : Replies,
   counter_reply : CounterReplies,
   fragment : {[kind |-> "none", debtor |-> Stranger, creditor |-> Stranger]}
                \cup {[kind |-> "terms", debtor |-> d, creditor |-> c] :
                        d, c \in 0..CliClassrooms}]

InitCompare ==
  /\ variant = "both"
  /\ NoRun
  /\ reply_text = << >>
  /\ notified = << >> /\ broadcast_next = 0
  /\ script \in Scripts
  /\ persisted = [v \in {"cli", "web"} |-> NotRun]
  /\ congestion_level = 0 /\ adjustment = 0
  /\ simulation_task = 0 /\ tasks = << >> /\ requests = << >>
  /\ response = "none"

\* autogen_agent.py runs its episode on the script
RunCli ==
  /\ ~persisted["cli"].exists
  /\ persisted' = [persisted EXCEPT !["cli"] = EpisodeEnd("cli", script)]
  /\ UNCHANGED << episode_vars, reply_vars, broadcast_vars, script, propose_vars,
                  control_vars >>

\* main.py runs its episode on the script
RunWeb ==
  /\ ~persisted["web"].exists
  /\ persisted' = [persisted EXCEPT !["web"] = EpisodeEnd("web", script)]
  /\ UNCHANGED << episode_vars, reply_vars, broadcast_vars, script, propose_vars,
                  control_vars >>

NextCompare == RunCli \/ RunWeb

SpecCompare == InitCompare /\ [][NextCompare]_vars

\* ------------------------------------------------------------------ C25 ----
BothRan == persisted # << >> /\ persisted["cli"].exists /\ persisted["web"].exists

\* C25: from the same state file, student counts and model replies, an
\* episode of the cli variant and an episode of the web variant end with
\* the same persisted state: the same commitment records with the same
\* statuses and the same reputation tables
C25_VariantsAgree == BothRan => persisted["cli"] = persisted["web"]

\* the same statement for a first run whose parsed fragment, if any, names
\* two participants
C25_VariantsAgreeOnFirstRun ==
  (BothRan /\ script.file = NoFile
   /\ (script.fragment.kind = "terms"
       => script.fragment.debtor \in 1..CliClassrooms
          /\ script.fragment.creditor \in 1..CliClassrooms))
  => persisted["cli"] = persisted["web"]

\* both variants recorded the same deal on a first run
C25_FirstRunWitness ==
  /\ BothRan /\ script.file = NoFile
  /\ Len(persisted["cli"].commitments) = 1
  /\ persisted["cli"] = persisted["web"]

\* ------------------------------------------------------------------ C26 ----
\* the records of the lists of the agents, in the order of the lists
RecordLists(h, lists) ==
  [a \in DOMAIN lists |-> [k \in 1..Len(lists[a]) |-> h[lists[a][k]]]]

\* the episode is over and its objects were saved
AfterSave == pc = "final" /\ num_classrooms >= 1

MadeRestored ==
  RecordLists(LoadHeap(file), LoadMade(file, num_classrooms))
    = RecordLists(heap, commitments_made)

ReceivedRestored ==
  RecordLists(LoadHeap(file), LoadReceived(file, num_classrooms))
    = RecordLists(heap, commitments_received)

ScoresRestored ==
  LoadReputations(file, variant, num_classrooms) = reputation_scores

\* C26: a save followed by a load with the same participants restores the
\* in-memory state: every participant's commitments_made list and
\* commitments_received list hold the same records in the same order as
\* before the save, and the reputation tables are the same
C26_SaveThenLoadRestores ==
  AfterSave => MadeRestored /\ ReceivedRestored /\ ScoresRestored

\* the reputation tables are restored in both variants, and the
\* commitments_made lists in the web variant
C26_ScoresAndWebMadeRestored ==
  AfterSave => /\ ScoresRestored
               /\ variant = "web" => MadeRestored

\* a web episode that loaded records, recorded a further deal and saved
C26_RestoredWitness ==
  /\ AfterSave /\ variant = "web" /\ loaded.exists
  /\ CreatedInRun = 1
  /\ MadeRestored /\ ScoresRestored
  /\ \E a \in Agents : Len(commitments_made[a]) >= 2

\* only the order of a commitments_received list is lost
C26_OrderLost ==
  /\ AfterSave /\ MadeRestored /\ ScoresRestored /\ ~ReceivedRestored
  /\ \A a \in Agents :
       {heap[commitments_received[a][k]] : k \in 1..Len(commitments_received[a])}
       = {LoadHeap(file)[LoadReceived(file, num_classrooms)[a][k]] :
            k \in 1..Len(LoadReceived(file, num_classrooms)[a])}

\* ------------------------------------------------------------------ C27 ----
\* an episode has its pair of negotiators
PairKnown ==
  /\ initiator \in Agents /\ target \in Agents
  /\ Len(heap) >= Len(loaded.commitments)

\* how far the initiator's score for the target is below its score at the
\* start of the run
ScoreDrop ==
  Get(LoadReputations(loaded, variant, num_classrooms)[initiator], target, InitialScore)
    - Get(reputation_scores[initiator], target, InitialScore)

AtMostOneViolation ==
  /\ Cardinality(NewlyViolated) <= 1
  /\ violation_count[target] <= 1
  /\ ScoreDrop <= ViolationPenalty

\* C27: in one episode at most one commitment changes status to violated,
\* the violator's violation_count rises by at most 1 and the initiator's
\* score for the target drops by at most 5, however many pending commitments
\* the target owes the initiator
C27_AtMostOneViolation == PairKnown => AtMostOneViolation

\* the same statement for the cli variant alone
C27_CliAtMostOneViolation == (variant = "cli" /\ PairKnown) => AtMostOneViolation

\* a cli episode whose target owed the initiator two pending commitments
C27_CliWitness ==
  /\ variant = "cli" /\ PairKnown /\ pc = "final"
  /\ Cardinality(OwedAtSelection) = 2
  /\ Cardinality(NewlyViolated) = 1 /\ violation_count[target] = 1

\* a web episode whose target owed the initiator two pending commitments
C27_TwoViolated ==
  /\ variant = "web" /\ PairKnown /\ pc = "final"
  /\ Cardinality(OwedAtSelection) = 2
  /\ Cardinality(NewlyViolated) = 2 /\ violation_count[target] = 2
  /\ ScoreDrop = 2 * ViolationPenalty

\* ------------------------------------------------------------------ C28 ----
\* the initiator's score for the target
Score == Get(reputation_scores[initiator], target, InitialScore)

\* a step of an episode that keeps its pair of negotiators
SamePairInStep ==
  /\ PairKnown
  /\ initiator' = initiator /\ target' = target
  /\ num_classrooms' = num_classrooms

\* C28 as claimed: within one episode the initiator's score for the target
\* is never both lowered for a violation and raised for a deal, so its net
\* change is 0, +1 or -5 before clamping
C28_OneDirection_Original ==
  PairKnown =>
    /\ ~(NewlyViolated # {} /\ ScoreDrop # 0 /\ commitment # 0 /\ ~error)
    /\ Score \in
         {Score + ScoreDrop,
          Min2(MaxScore, Score + ScoreDrop + SuccessGain),
          Max2(MinScore, Score + ScoreDrop - ViolationPenalty)}

\* C28: within one episode the initiator's score for the target is raised
\* only by the step that records a deal, by 1, and lowered only by a step
\* that marks a commitment violated, before any deal is recorded; after a
\* reply that accepts it is never lowered and no commitment is violated,
\* after a reply that rejects it is never raised.  After a counter-offer
\* both can happen, the violation first and the deal after it
C28_LoweredThenRaised ==
  /\ [][SamePairInStep =>
          /\ Get(reputation_scores'[initiator], target, InitialScore) > Score
             => /\ DealRecorded
                /\ Get(reputation_scores'[initiator], target, InitialScore)
                     = Score + SuccessGain
          /\ Get(reputation_scores'[initiator], target, InitialScore) < Score
             => ViolatedInStep # {} /\ commitment' = 0]_vars
  /\ [](PairKnown /\ evaluation = "ACCEPT" => ScoreDrop <= 0 /\ NewlyViolated = {})
  /\ [](PairKnown /\ evaluation = "REJECT" => ScoreDrop >= 0 /\ commitment = 0)

\* a web episode that lowered the score by 5 for a violation and raised it
\* by 1 for the accepted counter-offer
C28_Witness ==
  /\ variant = "web" /\ PairKnown /\ CompletedNormally
  /\ evaluation = "COUNTER" /\ counter_evaluation = "ACCEPT"
  /\ Cardinality(NewlyViolated) = 1 /\ commitment # 0
  /\ ScoreDrop = ViolationPenalty - SuccessGain

\* ------------------------------------------------------------------ C29 ----
\* the commitments in which the initiator is the debtor
OwnDebts == {k \in 1..Len(heap) : heap[k].debtor = initiator}

\* the pending commitments the initiator owed the target when the run had
\* loaded its state
OwedToTarget ==
  {k \in 1..Len(loaded.commitments) :
     /\ loaded.commitments[k].debtor = initiator
     /\ loaded.commitments[k].creditor = target
     /\ loaded.commitments[k].status = "pending"}

\* C29: an episode never changes the status of a commitment in which its
\* initiator is the debtor; an initiator that owes a pending commitment to a
\* current peer targets the creditor of one of its pending commitments,
\* whatever the scores; a deal recorded in such an episode adds a further
\* pending commitment and leaves the old ones pending, in memory and in the
\* state file the episode writes
C29_DebtsAreNeverDischarged ==
  /\ [][(initiator \in Agents) =>
          (\A k \in OwnDebts :
             k <= Len(heap') => heap'[k].status = heap[k].status)]_vars
  /\ []((PairSelected /\ OwesPeer)
        => \E k \in PendingDebts : CreditorAt(k) \in Peers /\ target = CreditorAt(k))
  /\ [][DealRecorded =>
          /\ Len(heap') = Len(heap) + 1
          /\ heap'[commitment'].status = "pending"
          /\ (\A k \in 1..Len(heap) : heap'[k] = heap[k])]_vars
  /\ []((pc = "final" /\ PairKnown)
        => \A k \in OwedToTarget :
             \E j \in 1..Len(file.commitments) :
               file.commitments[j] = loaded.commitments[k])

\* an episode of an initiator in debt to its target that recorded a further
\* debt of its own and saved both as pending
C29_Witness ==
  /\ CompletedNormally /\ PairKnown
  /\ OwedToTarget # {}
  /\ commitment # 0
  /\ heap[commitment].debtor = initiator /\ heap[commitment].creditor = target
  /\ \E i, j \in 1..Len(file.commitments) :
       /\ i # j
       /\ file.commitments[i].status = "pending"
       /\ file.commitments[j] = heap[commitment]
       /\ \E k \in OwedToTarget : file.commitments[i] = loaded.commitments[k]

\* ------------------------------------------------------------------ C30 ----
\* the web episode is about to select its target
AtSelection == variant = "web" /\ pc = "assess" /\ num_classrooms >= 2

\* C30: in the web variant, whatever the classroom counts (each at least 2)
\* of the runs that wrote the state file and of the current run, at the
\* moment of target selection every participant's reputation table has an
\* entry for every other current participant and none for itself, and the
\* selection returns a peer of the initiator
C30_WebTablesComplete ==
  AtSelection =>
    /\ \A a \in Agents :
         /\ Agents \ {a} \subseteq DOMAIN reputation_scores[a]
         /\ a \notin DOMAIN reputation_scores[a]
    /\ SelectNegotiationTarget(heap, commitments_made, reputation_scores,
                               Initiator(student_count, num_classrooms),
                               num_classrooms)
         \in Agents \ {Initiator(student_count, num_classrooms)}

\* a run of three classrooms on a state file written by runs of two, its
\* initiator without a debt to a peer: the choice is by reputation
C30_Witness ==
  /\ AtSelection /\ num_classrooms = 3
  /\ loaded.exists /\ Len(loaded.reputations) = 2
  /\ FirstDebt(heap, commitments_made, Initiator(student_count, num_classrooms),
               num_classrooms) = 0

\* a run of two classrooms on a state file written by runs of three
C30_FewerWitness ==
  /\ AtSelection /\ num_classrooms = 2
  /\ loaded.exists /\ Len(loaded.reputations) = 3

====
